---- MODULE Spec2Model ----
(***************************************************************************)
(* A model of tx-relay: the nonce allocator (NonceManager), the lifecycle  *)
(* hooks (HooksManager), the retry wrapper and the submission orchestrator *)
(* (RelayClient.sendTransaction).                                          *)
(*                                                                         *)
(* Every asynchronous function is cut at its awaits: one action per        *)
(* stretch of code that JavaScript runs without yielding to other tasks.   *)
(* The chain (RPC endpoint) and the caller's hooks are the environment:    *)
(* each of their answers is a nondeterministic choice from a small set.    *)
(***************************************************************************)
EXTENDS Integers, Sequences, FiniteSets, TLC

(* ------------------------------ bounds --------------------------------- *)
\* concurrent callers: sendTransaction calls in Spec, allocator clients in SpecNonce
NumCalls == 2
\* SpecNonce: total number of next()/reset() invocations in one behaviour
MaxOps == 4
\* the chain reports transaction counts in 0..MaxChainCount
MaxChainCount == 1
\* SpecOrder: concurrent callers of one NonceManager's getNextNonce()/reset()
NumClients == 3

Calls == 1..NumCalls
Clients == 1..NumClients
ChainCounts == 0..MaxChainCount

\* An optional value (T | null, T | undefined) is a sequence of at most one T.
None == <<>>
Some(v) == <<v>>
Val(o) == o[1]


(* --------------------------- strings, numbers -------------------------- *)
\* String.prototype.includes: pattern occurs in s as a substring (case matters)
includes(s, pattern) ==
    \E i \in 1..(Len(s) - Len(pattern) + 1) : SubSeq(s, i, i + Len(pattern) - 1) = pattern

\* JavaScript truthiness of an optional bigint: defined and not 0n
Truthy(o) == o # None /\ Val(o) # 0

(* ---------------------------- thrown values ---------------------------- *)
\* A thrown value that is not a RelayError: an Error object with a message, or a
\* bare string.
ErrorObject(message) == [type |-> "Error", message |-> message]
StringValue(s) == [type |-> "string", message |-> s]

\* new RelayError(message, code, details)
RelayError(message, code, details) ==
    [type |-> "RelayError", message |-> message, code |-> code, details |-> details]

\* RelayErrorCode
RelayErrorCode ==
    {"TRANSACTION_FAILED", "GAS_ESTIMATION_FAILED", "NONCE_ERROR", "INSUFFICIENT_FUNDS",
     "INVALID_SIGNATURE", "PERMANENT_REVERT", "TEMPORARY_FAILURE", "TIMEOUT"}

\* Thrown values that are neither Error objects nor strings: a number, null,
\* undefined, a plain object, and an object with no toString or valueOf
\* (Object.create(null)).
NumberValue(n) == [type |-> "number", number |-> n]
NullValue == [type |-> "null"]
UndefinedValue == [type |-> "undefined"]
PlainObject == [type |-> "object"]
NullPrototypeObject == [type |-> "null-prototype object"]

\* String(value): the text of the value, or None where the conversion throws a
\* TypeError (the object has nothing to convert it to a primitive)
String(value) ==
    CASE value.type = "string" -> Some(value.message)
      [] value.type = "number" -> Some(ToString(value.number))
      [] value.type = "null" -> Some("null")
      [] value.type = "undefined" -> Some("undefined")
      [] value.type = "object" -> Some("[object Object]")
      [] value.type = "null-prototype object" -> None

\* what a call leaves when it throws instead of returning
Thrown(e) == [type |-> "thrown", error |-> e]
TypeError(message) == [type |-> "TypeError", message |-> message]

\* (mutant) no instanceof RelayError test: a RelayError is classified again by
\* its message
classifyError_reclassifies(error) ==
    IF error.type \notin {"Error", "RelayError"} /\ String(error) = None
      THEN Thrown(TypeError("Cannot convert object to primitive value"))
    ELSE LET message == IF error.type \in {"Error", "RelayError"} THEN error.message
                        ELSE Val(String(error)) IN
         IF includes(message, "insufficient funds")
           THEN RelayError(message, "INSUFFICIENT_FUNDS", Some(error))
         ELSE IF \/ includes(message, "invalid signature")
                 \/ includes(message, "invalid sender")
           THEN RelayError(message, "INVALID_SIGNATURE", Some(error))
         ELSE IF \/ includes(message, "invalid opcode")
                 \/ includes(message, "execution reverted")
                 \/ includes(message, "revert")
                 \/ includes(message, "unauthorized")
           THEN RelayError(message, "PERMANENT_REVERT", Some(error))
         ELSE RelayError(message, "TEMPORARY_FAILURE", Some(error))

\* classifyError(error)
classifyError(error) ==
    IF error.type = "RelayError" THEN error
    ELSE IF error.type # "Error" /\ String(error) = None
      THEN Thrown(TypeError("Cannot convert object to primitive value"))
    ELSE LET message == IF error.type = "Error" THEN error.message ELSE Val(String(error)) IN
         IF includes(message, "insufficient funds")
           THEN RelayError(message, "INSUFFICIENT_FUNDS", Some(error))
         ELSE IF \/ includes(message, "invalid signature")
                 \/ includes(message, "invalid sender")
           THEN RelayError(message, "INVALID_SIGNATURE", Some(error))
         ELSE IF \/ includes(message, "invalid opcode")
                 \/ includes(message, "execution reverted")
                 \/ includes(message, "revert")
                 \/ includes(message, "unauthorized")
           THEN RelayError(message, "PERMANENT_REVERT", Some(error))
         ELSE IF \/ includes(message, "timeout")
                 \/ includes(message, "network")
                 \/ includes(message, "connection")
                 \/ includes(message, "rate limit")
                 \/ includes(message, "nonce too low")
           THEN RelayError(message, "TEMPORARY_FAILURE", Some(error))
         ELSE RelayError(message, "TEMPORARY_FAILURE", Some(error))

(* ------------------------------ results -------------------------------- *)
\* RelayResult<T> = { data?: T, error?: RelayError }
Data(v) == [data |-> Some(v), error |-> None]
Failure(e) == [data |-> None, error |-> Some(e)]
\* { data: undefined }
NoData == [data |-> None, error |-> None]

(* --------------------------- retry strategy ---------------------------- *)
\* config.maxRetries, handed to new ExponentialBackoff(maxAttempts)
MaxRetries == 1
maxAttempts == MaxRetries

\* (mutant) the attempt ceiling is off by one
shouldRetry_offByOne(error, attempt) ==
    IF attempt > maxAttempts THEN FALSE
    ELSE error.code \notin {"INSUFFICIENT_FUNDS", "INVALID_SIGNATURE", "PERMANENT_REVERT"}

\* ExponentialBackoff.shouldRetry(error, attempt)
shouldRetry(error, attempt) ==
    IF attempt >= maxAttempts THEN FALSE
    ELSE error.code \notin {"INSUFFICIENT_FUNDS", "INVALID_SIGNATURE", "PERMANENT_REVERT"}

\* Math.pow(2, n)
RECURSIVE Pow2(_)
Pow2(n) == IF n = 0 THEN 1 ELSE 2 * Pow2(n - 1)

Min(a, b) == IF a <= b THEN a ELSE b

\* Delays are counted in thousandths of a millisecond and Math.random() in
\* thousandths, so that the jitter factor 0.75 + random * 0.5 is the whole
\* number 750 + random \div 2 of thousandths for an even draw.
JitterFactor(random) == 750 + random \div 2

\* (mutant) the jitter factor reaches up to 1.75
getDelay_wideJitter(strategy, attempt, random) ==
    LET baseDelay == strategy.baseDelay * Pow2(attempt)
        jitteredDelay == baseDelay * (750 + random)
    IN Min(strategy.maxDelay * 1000, jitteredDelay)

\* ExponentialBackoff.getDelay(attempt): the jitter, then the cap
getDelay(strategy, attempt, random) ==
    LET baseDelay == strategy.baseDelay * Pow2(attempt)
        jitteredDelay == baseDelay * JitterFactor(random)
    IN Min(strategy.maxDelay * 1000, jitteredDelay)

\* the second ExponentialBackoff.getDelay(attempt), in index.ts: the cap, then
\* the jitter
getDelayIndex(strategy, attempt, random) ==
    LET delay == Min(strategy.maxDelay, strategy.baseDelay * Pow2(attempt))
    IN delay * JitterFactor(random)

\* (mutant) the final failure is returned next to a data field that is set
withRetry_both(outcome, attempt) ==
    IF outcome.ok
      THEN [retry |-> FALSE, result |-> Data(outcome.value)]
      ELSE LET classifiedError == classifyError(outcome.fault) IN
           IF ~shouldRetry(classifiedError, attempt)
             THEN [retry |-> FALSE,
                   result |-> [data |-> Some(0), error |-> Some(classifiedError)]]
             ELSE [retry |-> TRUE, result |-> NoData]

\* (mutant) a terminal error is retried like any other, up to the ceiling
withRetry_retriesTerminal(outcome, attempt) ==
    IF outcome.ok
      THEN [retry |-> FALSE, result |-> Data(outcome.value)]
      ELSE LET classifiedError == classifyError(outcome.fault) IN
           IF attempt >= maxAttempts
             THEN [retry |-> FALSE, result |-> Failure(classifiedError)]
             ELSE [retry |-> TRUE, result |-> NoData]

\* One round of RelayClient.withRetry: the operation's outcome and the attempt
\* number give either the final RelayResult or a retry (after the delay).
withRetry(outcome, attempt) ==
    IF outcome.ok
      THEN [retry |-> FALSE, result |-> Data(outcome.value)]
      ELSE LET classifiedError == classifyError(outcome.fault) IN
           IF ~shouldRetry(classifiedError, attempt)
             THEN [retry |-> FALSE, result |-> Failure(classifiedError)]
             ELSE [retry |-> TRUE, result |-> NoData]

\* what an awaited chain operation can do: resolve with a value or reject
Resolved(v) == [ok |-> TRUE, value |-> v, fault |-> ErrorObject("")]
Rejected(f) == [ok |-> FALSE, value |-> 0, fault |-> f]

(* ---------------------------- gas strategies --------------------------- *)
\* GasParameters = { gasPrice?, maxFeePerGas?, maxPriorityFeePerGas? }
\* Amounts are in wei. A multiplier is a JavaScript number, here the double
\* mant * 2^-exp; with the amounts and mantissas in range, Number(fee) * multiplier
\* is below 2^53 and the floating-point product is the exact one.
\* Math.ceil(multiplier)
Ceil(multiplier) == (multiplier.mant + Pow2(multiplier.exp) - 1) \div Pow2(multiplier.exp)
\* BigInt(Math.ceil(Number(fee) * multiplier))
CeilProduct(fee, multiplier) ==
    (fee * multiplier.mant + Pow2(multiplier.exp) - 1) \div Pow2(multiplier.exp)

\* (mutant) the legacy result carries the price as maxFeePerGas too
LegacyGasParameters_mixed(outcome, multiplier) ==
    IF outcome.ok
      THEN Data([gasPrice |-> Some(CeilProduct(outcome.value, multiplier)),
                 maxFeePerGas |-> Some(CeilProduct(outcome.value, multiplier)),
                 maxPriorityFeePerGas |-> None])
      ELSE Failure(RelayError("Failed to get gas price", "GAS_ESTIMATION_FAILED",
                              Some(outcome.fault)))

\* (mutant) a failed getGasPrice is classified by its message
LegacyGasParameters_classified(outcome, multiplier) ==
    IF outcome.ok
      THEN Data([gasPrice |-> Some(CeilProduct(outcome.value, multiplier)),
                 maxFeePerGas |-> None,
                 maxPriorityFeePerGas |-> None])
      ELSE Failure(classifyError(outcome.fault))

\* LegacyGasStrategy.getGasParameters
LegacyGasParameters(outcome, multiplier) ==
    IF outcome.ok
      THEN Data([gasPrice |-> Some(CeilProduct(outcome.value, multiplier)),
                 maxFeePerGas |-> None,
                 maxPriorityFeePerGas |-> None])
      ELSE Failure(RelayError("Failed to get gas price", "GAS_ESTIMATION_FAILED",
                              Some(outcome.fault)))

\* The EIP1559Config of the client's gas strategy, config.gasStrategy = new
\* EIP1559GasStrategy(publicClient, { minPriorityFee: 1n, maxPriorityFee: 500n,
\* maxTotalFee: 1000n }): the multipliers are the defaults 2 and 1.5, the three
\* bounds are the defaults divided by 10^9 (the defaults are beyond the
\* integers that can be evaluated here).
WeiConfig ==
    [baseFeeMultiplier |-> [mant |-> 2, exp |-> 0],
     priorityFeeMultiplier |-> [mant |-> 3, exp |-> 1],
     minPriorityFee |-> 1,
     maxPriorityFee |-> 500,
     maxTotalFee |-> 1000]

\* priorityFees.length > 0 ? priorityFees[Math.floor(priorityFees.length / 2)]
\*                         : this.config.minPriorityFee
medianPriorityFee(priorityFees, cfg) ==
    IF Len(priorityFees) > 0
      THEN priorityFees[(Len(priorityFees) \div 2) + 1]
      ELSE cfg.minPriorityFee

\* (mutant) the lower bound is not applied
boundPriorityFee_noFloor(fee, cfg) ==
    IF fee > cfg.maxPriorityFee THEN cfg.maxPriorityFee ELSE fee

\* "Apply priority fee bounds": the lower bound, then the upper one
boundPriorityFee(fee, cfg) ==
    LET atLeastMin == IF fee < cfg.minPriorityFee THEN cfg.minPriorityFee ELSE fee
    IN IF atLeastMin > cfg.maxPriorityFee THEN cfg.maxPriorityFee ELSE atLeastMin

\* (mutant) the total is not capped
capTotalFee_uncapped(fee, cfg) == fee

\* "Apply total fee cap"
capTotalFee(fee, cfg) == IF fee > cfg.maxTotalFee THEN cfg.maxTotalFee ELSE fee

\* EIP1559GasStrategy.getGasParameters: outcome is the answer of
\* Promise.all([getBlock(), getFeeHistory()]): value = [baseFeePerGas, reward]
EIP1559GasParameters(outcome, cfg) ==
    IF outcome.ok
      THEN LET baseFeePerGas == outcome.value.baseFeePerGas
               priorityFees == [i \in 1..Len(outcome.value.reward) |-> outcome.value.reward[i][1]]
               scaled == CeilProduct(medianPriorityFee(priorityFees, cfg),
                                     cfg.priorityFeeMultiplier)
               maxPriorityFeePerGas == boundPriorityFee(scaled, cfg)
               uncapped == baseFeePerGas * Ceil(cfg.baseFeeMultiplier)
                           + maxPriorityFeePerGas
               maxFeePerGas == capTotalFee(uncapped, cfg)
           IN Data([gasPrice |-> None,
                    maxFeePerGas |-> Some(maxFeePerGas),
                    maxPriorityFeePerGas |-> Some(maxPriorityFeePerGas)])
      ELSE Failure(RelayError("Failed to get EIP-1559 gas parameters",
                              "GAS_ESTIMATION_FAILED", Some(outcome.fault)))

(* --------------------------- preflight check --------------------------- *)
\* (mutant) a balance equal to the threshold fails as well
checkBalance_strict(outcome, requiredAmount, minBalanceRequired) ==
    IF outcome.ok
      THEN LET balance == outcome.value
               minRequired == IF minBalanceRequired # None THEN Val(minBalanceRequired)
                              ELSE requiredAmount
           IN IF balance <= minRequired
                THEN Failure(classifyError(StringValue(
                         "Insufficient balance. Required: " \o ToString(minRequired)
                         \o ", Available: " \o ToString(balance))))
                ELSE NoData
      ELSE Failure(classifyError(outcome.fault))

\* (mutant) a getBalance fault is returned as it was thrown, unclassified
checkBalance_raw(outcome, requiredAmount, minBalanceRequired) ==
    IF outcome.ok
      THEN LET balance == outcome.value
               minRequired == IF minBalanceRequired # None THEN Val(minBalanceRequired)
                              ELSE requiredAmount
           IN IF balance < minRequired
                THEN Failure(classifyError(StringValue(
                         "Insufficient balance. Required: " \o ToString(minRequired)
                         \o ", Available: " \o ToString(balance))))
                ELSE NoData
      ELSE Failure(outcome.fault)

\* checkBalance(publicClient, address, requiredAmount, minBalanceRequired?):
\* outcome is the answer of getBalance
checkBalance(outcome, requiredAmount, minBalanceRequired) ==
    IF outcome.ok
      THEN LET balance == outcome.value
               minRequired == IF minBalanceRequired # None THEN Val(minBalanceRequired)
                              ELSE requiredAmount
           IN IF balance < minRequired
                THEN Failure(classifyError(StringValue(
                         "Insufficient balance. Required: " \o ToString(minRequired)
                         \o ", Available: " \o ToString(balance))))
                ELSE NoData
      ELSE Failure(classifyError(outcome.fault))

(* --------------------------- NonceManager ------------------------------ *)
VARIABLES
    currentNonce,   \* NonceManager.currentNonce: number | null
    locked,         \* the async-mutex Mutex is held
    waiters,        \* the Mutex's FIFO queue of pending acquirers: <<[proc, op]>>
    nmpc,           \* per caller: position inside getNextNonce()/reset(): "queued" for
                    \* the mutex, "next_cs"/"reset_cs" holding it with the body about
                    \* to run, "fetching" the count, "returning"/"throwing" the body
                    \* has settled and the mutex is not yet released
    nmret,          \* per caller: value the last getNextNonce() resolved with
    \* history of the allocator, read by the properties only
    epochVals,      \* nonces returned since the last reset took effect, in order
    epochQueries,   \* getTransactionCount queries issued since the last reset
    reported,       \* what the last answered getTransactionCount query reported
    everReset,      \* some reset() has taken effect
    everFailed,     \* some getTransactionCount query has failed
    allocsBy,       \* per caller: number of nonces it was handed
    resetsBy,       \* per caller: number of its reset() calls that took effect
    issued,         \* the next() calls in the order they were issued, each with
                    \* the nonce it received and the number of calls that were
                    \* pending when it was issued: those no reset has followed yet
    ops             \* SpecNonce: number of invocations so far

(* ---------------------------- RelayClient ------------------------------ *)
VARIABLES
    config,          \* RelayConfig: [hooks, checkBalance, minBalanceRequired, eip1559]
    tx,              \* per call: the caller's TransactionRequest object
    pc,              \* per sendTransaction call: what it is awaiting
    attempt,         \* per call: withRetry's attempt counter
    gasResult,       \* per call: estimateGas's RelayResult, None while pending
    gasParamsResult, \* per call: getGasParameters's RelayResult, None while pending
    balanceCheck,    \* per call: checkBalance's RelayResult, None while not run
    nonce,           \* per call: the nonce getNextNonce() resolved with
    sent,            \* per call: the preparedTx's handed to walletClient.sendTransaction
    hash,            \* per call: the hash the broadcast resolved with
    receipt,         \* per call: waitForTransaction's RelayResult
    fault,           \* per call: the value caught by sendTransaction's catch
    hookLog,         \* per call: the hooks invoked so far, in order
    onErrorArg,      \* per call: the argument the on-error hook was invoked with
    result,          \* per call: the RelayResult sendTransaction resolved with
    raised           \* per call: the value sendTransaction rejected with

(* ------------------------ function evaluation -------------------------- *)
VARIABLES
    call,            \* SpecRetry, SpecClassify: the function called and its arguments
    returned         \* the values it has returned so far

nmVars == <<currentNonce, locked, waiters, nmpc, nmret>>
nmHist == <<epochVals, epochQueries, reported, everReset, everFailed, allocsBy, resetsBy,
           issued>>
callVars == <<pc, attempt, gasResult, gasParamsResult, balanceCheck, nonce, sent, hash,
              receipt, fault, hookLog, onErrorArg, result, raised>>
\* what no operation of the client or of the allocator assigns to
outside == <<config, tx, call, returned>>
relayVars == <<outside, callVars>>

vars == <<nmVars, nmHist, ops, relayVars>>

\* positions at which a caller is inside the critical section
CriticalSection == {"next_cs", "fetching", "reset_cs", "returning", "throwing"}
\* positions at which a caller has no allocator call in progress
NmQuiet == {"idle", "returned", "threw"}

\* history: caller p issues a next() call
Issue(p) ==
    issued' = Append(issued,
                     [proc |-> p, nonce |-> None,
                      ahead |-> Cardinality({i \in 1..Len(issued) : issued[i].nonce = None})])
\* history: the pending next() call of caller p receives v
Serve(p, v) ==
    issued' = [i \in 1..Len(issued) |->
                 IF issued[i].proc = p /\ issued[i].nonce = None
                   THEN [issued[i] EXCEPT !.nonce = Some(v)]
                   ELSE issued[i]]
\* history: the pending next() call of caller p rejects
Drop(p) == issued' = SelectSeq(issued, LAMBDA e : ~(e.proc = p /\ e.nonce = None))
\* history: a reset takes effect, the calls still pending come after it
Forget == issued' = SelectSeq(issued, LAMBDA e : e.nonce = None)

\* Mutex.runExclusive, first half: acquire() locks a free mutex at once, and
\* otherwise appends the caller to the FIFO queue.
runExclusive(p, op) ==
    /\ IF locked
         THEN /\ waiters' = Append(waiters, [proc |-> p, op |-> op])
              /\ nmpc' = [nmpc EXCEPT ![p] = "queued"]
              /\ locked' = locked
         ELSE /\ locked' = TRUE
              /\ nmpc' = [nmpc EXCEPT ![p] = op]
              /\ waiters' = waiters

\* (mutant) the body returns without releasing the mutex
release_kept(p, to) ==
    /\ locked' = TRUE
    /\ waiters' = waiters
    /\ nmpc' = [nmpc EXCEPT ![p] = to]

\* (mutant) the mutex passes to the caller that queued last
release_lifo(p, to) ==
    IF waiters = <<>>
      THEN /\ locked' = FALSE
           /\ waiters' = waiters
           /\ nmpc' = [nmpc EXCEPT ![p] = to]
      ELSE /\ locked' = TRUE
           /\ waiters' = SubSeq(waiters, 1, Len(waiters) - 1)
           /\ nmpc' = [nmpc EXCEPT ![p] = to,
                                   ![waiters[Len(waiters)].proc] = waiters[Len(waiters)].op]

\* Mutex.runExclusive, second half (finally { release() }): the mutex passes to
\* the head of the queue, or becomes free; caller p goes to position `to`.
release(p, to) ==
    IF waiters = <<>>
      THEN /\ locked' = FALSE
           /\ waiters' = waiters
           /\ nmpc' = [nmpc EXCEPT ![p] = to]
      ELSE /\ locked' = TRUE
           /\ waiters' = Tail(waiters)
           /\ nmpc' = [nmpc EXCEPT ![p] = to, ![Head(waiters).proc] = Head(waiters).op]

\* The body handed to runExclusive has returned ("returning") or thrown
\* ("throwing"): its promise settles, and runExclusive, which awaits it, still
\* holds the mutex.
settled(p, how) ==
    /\ nmpc' = [nmpc EXCEPT ![p] = how]
    /\ UNCHANGED <<locked, waiters>>

\* Mutex.runExclusive resumes after the body's promise has settled: its finally
\* releases the mutex and the call resolves or rejects.
runExclusiveFinally(p) ==
    /\ nmpc[p] \in {"returning", "throwing"}
    /\ release(p, IF nmpc[p] = "returning" THEN "returned" ELSE "threw")
    /\ UNCHANGED <<currentNonce, nmret, nmHist, ops, relayVars>>

\* The event loop runs promise continuations (microtasks) to completion before
\* it delivers the next answer from the chain. A continuation is pending when
\* the mutex has been handed to a body that has not run yet, when a body has
\* settled and the mutex is not yet released, or when a NonceManager call has
\* settled and sendTransaction has not resumed.
MicrotaskPending ==
    \/ \E q \in DOMAIN nmpc : nmpc[q] \in {"next_cs", "reset_cs", "returning", "throwing"}
    \/ \E q \in Calls :
          \/ pc[q] \in {"resetAfterWait", "catchReset"} /\ nmpc[q] = "returned"
          \/ pc[q] = "getNextNonce" /\ nmpc[q] \in {"returned", "threw"}

\* (mutant) getNextNonce() runs its body without taking the mutex
getNextNonce_unguarded(p) ==
    /\ nmpc[p] \in NmQuiet
    /\ nmpc' = [nmpc EXCEPT ![p] = "next_cs"]
    /\ Issue(p)
    /\ UNCHANGED <<locked, waiters, currentNonce, nmret, epochVals, epochQueries, reported,
                   everReset, everFailed, allocsBy, resetsBy>>

\* getNextNonce() is called: the body is handed to the mutex.
getNextNonce(p) ==
    /\ nmpc[p] \in NmQuiet
    /\ runExclusive(p, "next_cs")
    /\ Issue(p)
    /\ UNCHANGED <<currentNonce, nmret, epochVals, epochQueries, reported, everReset,
                   everFailed, allocsBy, resetsBy>>

\* (mutant) the cached nonce is returned before it is incremented
getNextNonceBody_stale(p) ==
    /\ nmpc[p] = "next_cs"
    /\ IF currentNonce = None
         THEN /\ nmpc' = [nmpc EXCEPT ![p] = "fetching"]
              /\ epochQueries' = epochQueries + 1
              /\ UNCHANGED <<currentNonce, locked, waiters, nmret, epochVals, allocsBy,
                             issued>>
         ELSE /\ currentNonce' = Some(Val(currentNonce) + 1)
              /\ nmret' = [nmret EXCEPT ![p] = Val(currentNonce)]
              /\ Serve(p, Val(currentNonce))
              /\ epochVals' = Append(epochVals, Val(currentNonce))
              /\ allocsBy' = [allocsBy EXCEPT ![p] = @ + 1]
              /\ settled(p, "returning")
              /\ UNCHANGED epochQueries
    /\ UNCHANGED <<reported, everReset, everFailed, resetsBy, ops, relayVars>>

\* The body of getNextNonce(), up to its await or its return.
getNextNonceBody(p) ==
    /\ nmpc[p] = "next_cs"
    /\ IF currentNonce = None
         THEN \* await publicClient.getTransactionCount(...): the mutex stays held
              /\ nmpc' = [nmpc EXCEPT ![p] = "fetching"]
              /\ epochQueries' = epochQueries + 1
              /\ UNCHANGED <<currentNonce, locked, waiters, nmret, epochVals, allocsBy,
                             issued>>
         ELSE \* this.currentNonce++ ; return this.currentNonce
              /\ currentNonce' = Some(Val(currentNonce) + 1)
              /\ nmret' = [nmret EXCEPT ![p] = Val(currentNonce) + 1]
              /\ Serve(p, Val(currentNonce) + 1)
              /\ epochVals' = Append(epochVals, Val(currentNonce) + 1)
              /\ allocsBy' = [allocsBy EXCEPT ![p] = @ + 1]
              /\ settled(p, "returning")
              /\ UNCHANGED epochQueries
    /\ UNCHANGED <<reported, everReset, everFailed, resetsBy, ops, relayVars>>

\* (mutant) the fetched count is returned but not cached
getTransactionCountResolved_uncached(p, v) ==
    /\ ~MicrotaskPending
    /\ nmpc[p] = "fetching"
    /\ nmret' = [nmret EXCEPT ![p] = v]
    /\ Serve(p, v)
    /\ epochVals' = Append(epochVals, v)
    /\ allocsBy' = [allocsBy EXCEPT ![p] = @ + 1]
    /\ reported' = Some(v)
    /\ settled(p, "returning")
    /\ UNCHANGED <<currentNonce, epochQueries, everReset, everFailed, resetsBy, ops, relayVars>>

\* getTransactionCount answers v: it is cached and returned.
getTransactionCountResolved(p, v) ==
    /\ ~MicrotaskPending
    /\ nmpc[p] = "fetching"
    /\ currentNonce' = Some(v)
    /\ nmret' = [nmret EXCEPT ![p] = v]
    /\ Serve(p, v)
    /\ epochVals' = Append(epochVals, v)
    /\ allocsBy' = [allocsBy EXCEPT ![p] = @ + 1]
    /\ reported' = Some(v)
    /\ settled(p, "returning")
    /\ UNCHANGED <<epochQueries, everReset, everFailed, resetsBy, ops, relayVars>>

\* (mutant) the failed query leaves the mutex held
getTransactionCountRejected_held(p) ==
    /\ ~MicrotaskPending
    /\ nmpc[p] = "fetching"
    /\ everFailed' = TRUE
    /\ Drop(p)
    /\ nmpc' = [nmpc EXCEPT ![p] = "threw"]
    /\ UNCHANGED <<locked, waiters>>
    /\ UNCHANGED <<currentNonce, nmret, epochVals, epochQueries, reported, everReset,
                   allocsBy, resetsBy, ops, relayVars>>

\* getTransactionCount fails: getNextNonce() rejects, the cache stays unset.
getTransactionCountRejected(p) ==
    /\ ~MicrotaskPending
    /\ nmpc[p] = "fetching"
    /\ everFailed' = TRUE
    /\ Drop(p)
    /\ settled(p, "throwing")
    /\ UNCHANGED <<currentNonce, nmret, epochVals, epochQueries, reported, everReset,
                   allocsBy, resetsBy, ops, relayVars>>

\* (mutant) reset() resolves at once, its body never run
reset_skipped(p) ==
    /\ nmpc[p] \in NmQuiet
    /\ nmpc' = [nmpc EXCEPT ![p] = "returned"]
    /\ UNCHANGED <<locked, waiters, currentNonce, nmret, nmHist>>

\* reset() is called: the body is handed to the mutex.
reset(p) ==
    /\ nmpc[p] \in NmQuiet
    /\ runExclusive(p, "reset_cs")
    /\ UNCHANGED <<currentNonce, nmret, nmHist>>

\* (mutant) reset() leaves the cached nonce in place
resetBody_keeps(p) ==
    /\ nmpc[p] = "reset_cs"
    /\ epochVals' = <<>>
    /\ epochQueries' = 0
    /\ everReset' = TRUE
    /\ Forget
    /\ resetsBy' = [resetsBy EXCEPT ![p] = @ + 1]
    /\ settled(p, "returning")
    /\ UNCHANGED <<currentNonce, nmret, reported, everFailed, allocsBy, ops, relayVars>>

\* The body of reset(): this.currentNonce = null
resetBody(p) ==
    /\ nmpc[p] = "reset_cs"
    /\ currentNonce' = None
    /\ epochVals' = <<>>
    /\ epochQueries' = 0
    /\ everReset' = TRUE
    /\ Forget
    /\ resetsBy' = [resetsBy EXCEPT ![p] = @ + 1]
    /\ settled(p, "returning")
    /\ UNCHANGED <<nmret, reported, everFailed, allocsBy, ops, relayVars>>

\* new NonceManager(publicClient, account), to be called by `callers`
NonceManagerFor(callers) ==
    /\ currentNonce = None
    /\ locked = FALSE
    /\ waiters = <<>>
    /\ nmpc = [p \in callers |-> "idle"]
    /\ nmret = [p \in callers |-> 0]
    /\ epochVals = <<>>
    /\ epochQueries = 0
    /\ reported = None
    /\ everReset = FALSE
    /\ everFailed = FALSE
    /\ allocsBy = [p \in callers |-> 0]
    /\ resetsBy = [p \in callers |-> 0]
    /\ issued = <<>>

InitNonceManager == NonceManagerFor(Calls)

(* ------------------- RelayClient.sendTransaction ----------------------- *)
\* what the chain and the caller's hooks can answer
GasEstimates == {0, 2}
GasPrices == {3}
Blocks == {[baseFeePerGas |-> 1, reward |-> << <<2>> >>]}
Balances == {5, 12}
ReceiptStatuses == {"success", "reverted"}
\* a fault the retry strategy retries, and one it does not
RetryFaults == {ErrorObject("timeout"), ErrorObject("execution reverted")}
PricingFaults == {ErrorObject("connection refused")}
BalanceFaults == {ErrorObject("rate limit exceeded")}
BroadcastFaults == {ErrorObject("nonce too low")}
\* the relayer account's transaction count while the calls run
AccountCounts == {MaxChainCount}
HookFault == ErrorObject("hook failed")
NonceFault == ErrorObject("network error")

AllHooks == {"beforeTransaction", "onTransactionBroadcast", "onTransactionConfirmed",
             "afterTransaction", "onError"}

\* the RelayConfig of the client: which hook slots are set, the preflight
\* toggle and override, and the gas strategy: eip1559 when config.gasStrategy is
\* the EIP1559GasStrategy of WeiConfig, and otherwise the LegacyGasStrategy that
\* createGasStrategy makes for a chain without fee-market pricing
Configs ==
    {[hooks |-> AllHooks, checkBalance |-> TRUE, minBalanceRequired |-> None,
      eip1559 |-> TRUE],
     [hooks |-> {}, checkBalance |-> FALSE, minBalanceRequired |-> None,
      eip1559 |-> FALSE],
     [hooks |-> {"beforeTransaction", "onTransactionConfirmed"}, checkBalance |-> TRUE,
      minBalanceRequired |-> Some(6), eip1559 |-> FALSE]}

\* no function is under evaluation
NoCall == [fn |-> "none"]

\* the request sendTransaction is called with: the caller sets neither a nonce
\* nor a gas limit
TransactionRequest(p) == [to |-> "0xRecipient", value |-> p, nonce |-> None, gas |-> None]

InitCalls ==
    /\ call = NoCall
    /\ tx = [p \in Calls |-> TransactionRequest(p)]
    /\ returned = <<>>
    /\ pc = [p \in Calls |-> "idle"]
    /\ attempt = [p \in Calls |-> 0]
    /\ gasResult = [p \in Calls |-> None]
    /\ gasParamsResult = [p \in Calls |-> None]
    /\ balanceCheck = [p \in Calls |-> None]
    /\ nonce = [p \in Calls |-> None]
    /\ sent = [p \in Calls |-> None]
    /\ hash = [p \in Calls |-> None]
    /\ receipt = [p \in Calls |-> None]
    /\ fault = [p \in Calls |-> None]
    /\ hookLog = [p \in Calls |-> <<>>]
    /\ onErrorArg = [p \in Calls |-> None]
    /\ result = [p \in Calls |-> None]
    /\ raised = [p \in Calls |-> None]

allocator == <<nmVars, nmHist>>

(* sendTransaction is cut at its awaits.  pc[p] names what call p awaits:     *)
(*   "estimating"          Promise.all([estimateGas, getGasParameters])     *)
(*   "checkBalance"        the preflight check                              *)
(*   a hook's name         the caller's callback, run by HooksManager       *)
(*   "getNextNonce"        nonceManager.getNextNonce()                      *)
(*   "broadcast"           walletClient.sendTransaction(preparedTx)         *)
(*   "waitForTransaction"  the confirmation wait                            *)
(*   "resetAfterWait"      nonceManager.reset() after a failed wait         *)
(*   "catchReset"          nonceManager.reset() in the catch block          *)
(* The other labels below are points of the code reached and left within    *)
(* one step.                                                                 *)

\* the HooksManager method called at a point of sendTransaction, and its slot
HookAt(at) ==
    CASE at = "runBeforeTransaction" -> "beforeTransaction"
      [] at = "runOnTransactionBroadcast" -> "onTransactionBroadcast"
      [] at = "runOnTransactionConfirmed" -> "onTransactionConfirmed"
      [] at = "runAfterTransaction" -> "afterTransaction"
      [] at = "runOnError" -> "onError"
      [] OTHER -> "none"

\* (mutant) the after-complete hook is left out after the confirmed hook
AfterHook_skipsAfter(slot) ==
    CASE slot = "beforeTransaction" -> "getNextNonce"
      [] slot = "onTransactionBroadcast" -> "waitForTransaction"
      [] slot = "onTransactionConfirmed" -> "returnData"
      [] slot = "afterTransaction" -> "returnData"
      [] slot = "onError" -> "returnError"

\* where sendTransaction goes on when HooksManager's method for `slot` resolves
AfterHook(slot) ==
    CASE slot = "beforeTransaction" -> "getNextNonce"
      [] slot = "onTransactionBroadcast" -> "waitForTransaction"
      [] slot = "onTransactionConfirmed" -> "runAfterTransaction"
      [] slot = "afterTransaction" -> "returnData"
      [] slot = "onError" -> "returnError"

\* HooksManager.run*: from point `at`, the next await (or return) of
\* sendTransaction. A set slot is invoked and awaited; an unset slot resolves at
\* once, and the code runs on.
RECURSIVE runHooks(_)
runHooks(at) ==
    IF HookAt(at) = "none" THEN [pc |-> at, invoked |-> None]
    ELSE IF HookAt(at) \in config.hooks THEN [pc |-> HookAt(at), invoked |-> Some(HookAt(at))]
    ELSE runHooks(AfterHook(HookAt(at)))

\* sendTransaction resolves with a RelayResult.
Return(p, r) ==
    /\ result' = [result EXCEPT ![p] = Some(r)]
    /\ pc' = [pc EXCEPT ![p] = "done"]

\* sendTransaction runs on from point `at` to its next await or to its return;
\* relayError is what the catch block holds when it returns.
Continue(p, at, relayError) ==
    LET to == runHooks(at) IN
    /\ hookLog' = [hookLog EXCEPT ![p] = @ \o to.invoked]
    /\ onErrorArg' = IF to.invoked = Some("onError")
                     THEN [onErrorArg EXCEPT ![p] = Some(relayError)]
                     ELSE onErrorArg
    /\ CASE to.pc = "getNextNonce" ->
              /\ getNextNonce(p)
              /\ pc' = [pc EXCEPT ![p] = to.pc]
              /\ UNCHANGED result
         [] to.pc \in {"resetAfterWait", "catchReset"} ->
              /\ reset(p)
              /\ pc' = [pc EXCEPT ![p] = to.pc]
              /\ UNCHANGED result
         [] to.pc = "returnData" ->
              /\ Return(p, Data(Val(hash[p])))
              /\ UNCHANGED allocator
         [] to.pc = "returnError" ->
              /\ Return(p, Failure(relayError))
              /\ UNCHANGED allocator
         [] OTHER ->
              /\ pc' = [pc EXCEPT ![p] = to.pc]
              /\ UNCHANGED <<allocator, result>>

\* sendTransaction(tx) is called: estimateGas and getGasParameters start.
sendTransaction(p) ==
    /\ pc[p] = "idle"
    /\ pc' = [pc EXCEPT ![p] = "estimating"]
    /\ UNCHANGED <<allocator, ops, outside, attempt, gasResult, gasParamsResult,
                   balanceCheck, nonce, sent,
                   hash, receipt, fault, hookLog, onErrorArg, result, raised>>

\* sendTransaction after Promise.all: the early returns on a failed estimate or
\* pricing, then the preflight check or the before-send hook.
afterGas(p, gas, params) ==
    IF gas.error # None THEN Return(p, Failure(Val(gas.error))) /\ UNCHANGED <<allocator,
                                                                               hookLog, onErrorArg>>
    ELSE IF params.error # None
      THEN Return(p, Failure(Val(params.error))) /\ UNCHANGED <<allocator, hookLog, onErrorArg>>
    ELSE IF ~Truthy(gas.data) \/ params.data = None
      THEN /\ Return(p, Failure(classifyError(StringValue("Failed to get gas parameters"))))
           /\ UNCHANGED <<allocator, hookLog, onErrorArg>>
    ELSE IF config.checkBalance
      THEN /\ pc' = [pc EXCEPT ![p] = "checkBalance"]
           /\ UNCHANGED <<allocator, hookLog, onErrorArg, result>>
    ELSE Continue(p, "runBeforeTransaction", NoData)

\* estimateGas(tx): one round of withRetry around publicClient.estimateGas.
estimateGas(p, outcome) ==
    /\ ~MicrotaskPending
    /\ pc[p] = "estimating"
    /\ gasResult[p] = None
    /\ LET round == withRetry(outcome, attempt[p]) IN
         IF round.retry
           THEN /\ attempt' = [attempt EXCEPT ![p] = @ + 1]
                /\ UNCHANGED <<gasResult, allocator, pc, hookLog, onErrorArg, result>>
           ELSE /\ attempt' = [attempt EXCEPT ![p] = 0]
                /\ gasResult' = [gasResult EXCEPT ![p] = Some(round.result)]
                /\ IF gasParamsResult[p] # None
                     THEN afterGas(p, round.result, Val(gasParamsResult[p]))
                     ELSE UNCHANGED <<allocator, pc, hookLog, onErrorArg, result>>
    /\ UNCHANGED <<ops, outside, gasParamsResult, balanceCheck, nonce, sent, hash, receipt,
                   fault, raised>>

\* config.gasStrategy.getGasParameters(): the EIP1559GasStrategy the client was
\* configured with, or the LegacyGasStrategy createGasStrategy chose.
getGasParameters(p, outcome) ==
    /\ ~MicrotaskPending
    /\ pc[p] = "estimating"
    /\ gasParamsResult[p] = None
    /\ LET r == IF config.eip1559 THEN EIP1559GasParameters(outcome, WeiConfig)
                ELSE LegacyGasParameters(outcome, [mant |-> 1, exp |-> 0])
       IN /\ gasParamsResult' = [gasParamsResult EXCEPT ![p] = Some(r)]
          /\ IF gasResult[p] # None
               THEN afterGas(p, Val(gasResult[p]), r)
               ELSE UNCHANGED <<allocator, pc, hookLog, onErrorArg, result>>
    /\ UNCHANGED <<ops, outside, balanceCheck, attempt, gasResult, nonce, sent, hash,
                   receipt, fault, raised>>

\* estimatedGas * (gasParams.gasPrice ?? gasParams.maxFeePerGas!)
totalGas(estimatedGas, gasParams) ==
    estimatedGas * (IF gasParams.gasPrice # None THEN Val(gasParams.gasPrice)
                    ELSE Val(gasParams.maxFeePerGas))

\* (mutant) the preflight check's answer is not looked at
preflight_ignored(p, outcome) ==
    /\ ~MicrotaskPending
    /\ pc[p] = "checkBalance"
    /\ LET check ==
               checkBalance(outcome,
                            totalGas(Val(Val(gasResult[p]).data), Val(Val(gasParamsResult[p]).data)),
                            config.minBalanceRequired)
       IN /\ balanceCheck' = [balanceCheck EXCEPT ![p] = Some(check)]
          /\ Continue(p, "runBeforeTransaction", NoData)
    /\ UNCHANGED <<ops, outside, attempt, gasResult, gasParamsResult, nonce, sent, hash,
                   receipt, fault, raised>>

\* The preflight check answers: an early return, or on to the before-send hook.
preflight(p, outcome) ==
    /\ ~MicrotaskPending
    /\ pc[p] = "checkBalance"
    /\ LET check ==
               checkBalance(outcome,
                            totalGas(Val(Val(gasResult[p]).data), Val(Val(gasParamsResult[p]).data)),
                            config.minBalanceRequired)
       IN /\ balanceCheck' = [balanceCheck EXCEPT ![p] = Some(check)]
          /\ IF check.error # None
               THEN Return(p, Failure(Val(check.error))) /\ UNCHANGED <<allocator, hookLog, onErrorArg>>
               ELSE Continue(p, "runBeforeTransaction", NoData)
    /\ UNCHANGED <<ops, outside, attempt, gasResult, gasParamsResult, nonce, sent, hash,
                   receipt, fault, raised>>

\* The caller's callback resolves: so does the HooksManager method awaiting it.
hookResolved(p) ==
    /\ pc[p] \in AllHooks
    /\ Continue(p, AfterHook(pc[p]), IF fault[p] # None THEN Val(fault[p]) ELSE NoData)
    /\ UNCHANGED <<ops, outside, attempt, gasResult, gasParamsResult, balanceCheck, nonce,
                   sent, hash,
                   receipt, fault, raised>>

\* (mutant) a hook's fault leaves sendTransaction from whichever hook it came
hookRejected_propagates(p) ==
    /\ pc[p] \in AllHooks
    /\ raised' = [raised EXCEPT ![p] = Some(HookFault)]
    /\ pc' = [pc EXCEPT ![p] = "done"]
    /\ UNCHANGED <<fault, allocator, hookLog, onErrorArg, result>>
    /\ UNCHANGED <<ops, outside, balanceCheck, attempt, gasResult, gasParamsResult, nonce, sent,
                   hash, receipt>>

\* The caller's callback rejects. HooksManager does not catch: inside the try
\* the fault reaches sendTransaction's catch; the on-error hook runs inside the
\* catch, so its fault leaves sendTransaction.
hookRejected(p) ==
    /\ pc[p] \in AllHooks
    /\ IF pc[p] = "onError"
         THEN /\ raised' = [raised EXCEPT ![p] = Some(HookFault)]
              /\ pc' = [pc EXCEPT ![p] = "done"]
              /\ UNCHANGED <<fault, allocator, hookLog, onErrorArg, result>>
         ELSE /\ fault' = [fault EXCEPT ![p] = Some(HookFault)]
              /\ Continue(p, "catchReset", NoData)
              /\ UNCHANGED raised
    /\ UNCHANGED <<ops, outside, attempt, gasResult, gasParamsResult, balanceCheck, nonce,
                   sent, hash,
                   receipt>>

\* the outbound transaction, a new object: { ...tx, nonce, gas, the fee fields
\* that are truthy }
preparedTx(request, n, estimatedGas, gasParams) ==
    [to |-> request.to,
     value |-> request.value,
     nonce |-> n,
     gas |-> estimatedGas,
     gasPrice |-> IF Truthy(gasParams.gasPrice) THEN gasParams.gasPrice ELSE None,
     maxFeePerGas |-> IF Truthy(gasParams.maxFeePerGas) THEN gasParams.maxFeePerGas ELSE None,
     maxPriorityFeePerGas |-> IF Truthy(gasParams.maxFeePerGas)
                                THEN gasParams.maxPriorityFeePerGas ELSE None]

\* (mutant) nonce and gas limit are written into the caller's object
sendPreparedTx_inPlace(p) ==
    /\ pc[p] = "getNextNonce"
    /\ nmpc[p] = "returned"
    /\ nonce' = [nonce EXCEPT ![p] = Some(nmret[p])]
    /\ tx' = [tx EXCEPT ![p].nonce = Some(nmret[p]),
                        ![p].gas = Some(Val(Val(gasResult[p]).data))]
    /\ sent' = [sent EXCEPT ![p] =
           Append(@, preparedTx(tx[p], nmret[p], Val(Val(gasResult[p]).data),
                                Val(Val(gasParamsResult[p]).data)))]
    /\ pc' = [pc EXCEPT ![p] = "broadcast"]
    /\ UNCHANGED <<allocator, ops, config, call, returned, attempt, gasResult,
                   gasParamsResult, balanceCheck, hash, receipt, fault, hookLog, onErrorArg,
                   result, raised>>

\* getNextNonce() resolved: sendTransaction assigns the nonce, assembles
\* preparedTx and calls walletClient.sendTransaction(preparedTx), whose answer
\* it then awaits.
sendPreparedTx(p) ==
    /\ pc[p] = "getNextNonce"
    /\ nmpc[p] = "returned"
    /\ nonce' = [nonce EXCEPT ![p] = Some(nmret[p])]
    /\ sent' = [sent EXCEPT ![p] =
           Append(@, preparedTx(tx[p], nmret[p], Val(Val(gasResult[p]).data),
                                Val(Val(gasParamsResult[p]).data)))]
    /\ pc' = [pc EXCEPT ![p] = "broadcast"]
    /\ UNCHANGED <<allocator, ops, outside, attempt, gasResult, gasParamsResult,
                   balanceCheck, hash, receipt, fault, hookLog, onErrorArg, result, raised>>

\* (mutant) a rejected broadcast is tried a second time
broadcast_retried(p, outcome) ==
    /\ ~MicrotaskPending
    /\ pc[p] = "broadcast"
    /\ IF outcome.ok
         THEN /\ hash' = [hash EXCEPT ![p] = Some(outcome.value)]
              /\ Continue(p, "runOnTransactionBroadcast", NoData)
              /\ UNCHANGED <<fault, sent>>
         ELSE IF Len(sent[p]) = 1
           THEN /\ sent' = [sent EXCEPT ![p] = Append(@, @[1])]
                /\ UNCHANGED <<fault, hash, allocator, pc, hookLog, onErrorArg, result>>
         ELSE /\ fault' = [fault EXCEPT ![p] = Some(outcome.fault)]
              /\ Continue(p, "catchReset", NoData)
              /\ UNCHANGED <<hash, sent>>
    /\ UNCHANGED <<ops, outside, attempt, gasResult, gasParamsResult, balanceCheck, nonce,
                   receipt, raised>>

\* walletClient.sendTransaction answers with a hash or a fault.
broadcast(p, outcome) ==
    /\ ~MicrotaskPending
    /\ pc[p] = "broadcast"
    /\ IF outcome.ok
         THEN /\ hash' = [hash EXCEPT ![p] = Some(outcome.value)]
              /\ Continue(p, "runOnTransactionBroadcast", NoData)
              /\ UNCHANGED fault
         ELSE /\ fault' = [fault EXCEPT ![p] = Some(outcome.fault)]
              /\ Continue(p, "catchReset", NoData)
              /\ UNCHANGED hash
    /\ UNCHANGED <<ops, outside, attempt, gasResult, gasParamsResult, balanceCheck, nonce,
                   sent, receipt, raised>>

\* (mutant) a rejected getNextNonce() leaves sendTransaction uncaught
getNextNonceRejected_propagates(p) ==
    /\ pc[p] = "getNextNonce"
    /\ nmpc[p] = "threw"
    /\ raised' = [raised EXCEPT ![p] = Some(NonceFault)]
    /\ pc' = [pc EXCEPT ![p] = "done"]
    /\ UNCHANGED <<allocator, ops, outside, balanceCheck, attempt, gasResult, gasParamsResult,
                   nonce, sent, hash, receipt, fault, hookLog, onErrorArg, result>>

\* getNextNonce() rejected (the transaction-count query failed): to the catch.
getNextNonceRejected(p) ==
    /\ pc[p] = "getNextNonce"
    /\ nmpc[p] = "threw"
    /\ fault' = [fault EXCEPT ![p] = Some(NonceFault)]
    /\ Continue(p, "catchReset", NoData)
    /\ UNCHANGED <<ops, outside, attempt, gasResult, gasParamsResult, balanceCheck, nonce,
                   sent, hash,
                   receipt, raised>>

\* (mutant) a failed confirmation wait returns its error with no reset()
waitForTransaction_noreset(p, outcome) ==
    /\ ~MicrotaskPending
    /\ pc[p] = "waitForTransaction"
    /\ LET round == withRetry(outcome, attempt[p]) IN
         IF round.retry
           THEN /\ attempt' = [attempt EXCEPT ![p] = @ + 1]
                /\ UNCHANGED <<receipt, allocator, pc, hookLog, onErrorArg, result>>
           ELSE /\ attempt' = [attempt EXCEPT ![p] = 0]
                /\ receipt' = [receipt EXCEPT ![p] = Some(round.result)]
                /\ IF round.result.error # None
                     THEN Continue(p, "returnError", Val(round.result.error))
                   ELSE IF Val(round.result.data) = "success"
                     THEN Continue(p, "runOnTransactionConfirmed", NoData)
                   ELSE Continue(p, "runAfterTransaction", NoData)
    /\ UNCHANGED <<ops, outside, balanceCheck, gasResult, gasParamsResult, nonce, sent, hash,
                   fault, raised>>

\* (mutant) the confirmed hook runs whatever the receipt's status
waitForTransaction_confirmsAll(p, outcome) ==
    /\ ~MicrotaskPending
    /\ pc[p] = "waitForTransaction"
    /\ LET round == withRetry(outcome, attempt[p]) IN
         IF round.retry
           THEN /\ attempt' = [attempt EXCEPT ![p] = @ + 1]
                /\ UNCHANGED <<receipt, allocator, pc, hookLog, onErrorArg, result>>
           ELSE /\ attempt' = [attempt EXCEPT ![p] = 0]
                /\ receipt' = [receipt EXCEPT ![p] = Some(round.result)]
                /\ Continue(p, IF round.result.error # None THEN "resetAfterWait"
                               ELSE "runOnTransactionConfirmed",
                            NoData)
    /\ UNCHANGED <<ops, outside, gasResult, gasParamsResult, balanceCheck, nonce, sent,
                   hash, fault, raised>>

\* waitForTransaction(hash): one round of withRetry around
\* publicClient.waitForTransactionReceipt; then the branch on the receipt.
waitForTransaction(p, outcome) ==
    /\ ~MicrotaskPending
    /\ pc[p] = "waitForTransaction"
    /\ LET round == withRetry(outcome, attempt[p]) IN
         IF round.retry
           THEN /\ attempt' = [attempt EXCEPT ![p] = @ + 1]
                /\ UNCHANGED <<receipt, allocator, pc, hookLog, onErrorArg, result>>
           ELSE /\ attempt' = [attempt EXCEPT ![p] = 0]
                /\ receipt' = [receipt EXCEPT ![p] = Some(round.result)]
                /\ Continue(p, IF round.result.error # None THEN "resetAfterWait"
                               ELSE IF Val(round.result.data) = "success"
                                 THEN "runOnTransactionConfirmed"
                               ELSE "runAfterTransaction",
                            NoData)
    /\ UNCHANGED <<ops, outside, gasResult, gasParamsResult, balanceCheck, nonce, sent,
                   hash, fault, raised>>

\* if (receipt.error) { await reset(); return { error: receipt.error } }:
\* the reset resolved
returnReceiptError(p) ==
    /\ pc[p] = "resetAfterWait"
    /\ nmpc[p] = "returned"
    /\ Return(p, Failure(Val(Val(receipt[p]).error)))
    /\ UNCHANGED <<allocator, ops, outside, attempt, gasResult, gasParamsResult,
                   balanceCheck, nonce, sent,
                   hash, receipt, fault, hookLog, onErrorArg, raised>>

\* (mutant) the catch block hands on the fault as caught, unclassified
catchBlock_unclassified(p) ==
    /\ pc[p] = "catchReset"
    /\ nmpc[p] = "returned"
    /\ Continue(p, "runOnError", Val(fault[p]))
    /\ UNCHANGED <<ops, outside, balanceCheck, attempt, gasResult, gasParamsResult, nonce,
                   sent, hash, receipt, fault, raised>>

\* catch (error) { await reset(); const relayError = classifyError(error);
\* await runOnError(relayError); return { error: relayError } }: the reset resolved
catchBlock(p) ==
    /\ pc[p] = "catchReset"
    /\ nmpc[p] = "returned"
    /\ LET relayError == classifyError(Val(fault[p])) IN
         /\ fault' = [fault EXCEPT ![p] = Some(relayError)]
         /\ Continue(p, "runOnError", relayError)
    /\ UNCHANGED <<ops, outside, attempt, gasResult, gasParamsResult, balanceCheck, nonce,
                   sent, hash,
                   receipt, raised>>

(* ---------------- SpecNonce: the allocator and its callers ------------- *)
\* A caller invokes next() (getNextNonce).
CallNext(p) ==
    /\ ops < MaxOps
    /\ getNextNonce(p)
    /\ ops' = ops + 1
    /\ UNCHANGED relayVars

\* A caller invokes reset().
CallReset(p) ==
    /\ ops < MaxOps
    /\ reset(p)
    /\ ops' = ops + 1
    /\ UNCHANGED relayVars

InitNonce ==
    /\ InitNonceManager
    /\ ops = 0
    /\ config = [hooks |-> {}, checkBalance |-> FALSE, minBalanceRequired |-> None,
                 eip1559 |-> FALSE]
    /\ InitCalls

NextNonce ==
    \/ \E p \in Calls : CallNext(p)
    \/ \E p \in Calls : CallReset(p)
    \/ \E p \in Calls : getNextNonceBody(p)
    \/ \E p \in Calls, v \in ChainCounts : getTransactionCountResolved(p, v)
    \/ \E p \in Calls : getTransactionCountRejected(p)
    \/ \E p \in Calls : resetBody(p)
    \/ \E p \in Calls : runExclusiveFinally(p)

SpecNonce == InitNonce /\ [][NextNonce]_vars

(* ------- SpecOrder: several callers queue on one NonceManager ---------- *)
\* As SpecNonce, with NumClients callers: up to NumClients - 1 of them wait in
\* the mutex's queue at once.
InitOrder ==
    /\ NonceManagerFor(Clients)
    /\ ops = 0
    /\ config = [hooks |-> {}, checkBalance |-> FALSE, minBalanceRequired |-> None,
                 eip1559 |-> FALSE]
    /\ InitCalls

NextOrder ==
    \/ \E p \in Clients : CallNext(p)
    \/ \E p \in Clients : CallReset(p)
    \/ \E p \in Clients : getNextNonceBody(p)
    \/ \E p \in Clients, v \in ChainCounts : getTransactionCountResolved(p, v)
    \/ \E p \in Clients : getTransactionCountRejected(p)
    \/ \E p \in Clients : resetBody(p)
    \/ \E p \in Clients : runExclusiveFinally(p)

SpecOrder == InitOrder /\ [][NextOrder]_vars

(* ------------- Spec: concurrent sendTransaction calls ------------------ *)
Init ==
    /\ InitNonceManager
    /\ ops = 0
    /\ config \in Configs
    /\ InitCalls

Next ==
    \/ \E p \in Calls : sendTransaction(p)
    \/ \E p \in Calls, g \in GasEstimates : estimateGas(p, Resolved(g))
    \/ \E p \in Calls, f \in RetryFaults : estimateGas(p, Rejected(f))
    \/ \E p \in Calls, g \in GasPrices : ~config.eip1559 /\ getGasParameters(p, Resolved(g))
    \/ \E p \in Calls, b \in Blocks : config.eip1559 /\ getGasParameters(p, Resolved(b))
    \/ \E p \in Calls, f \in PricingFaults : getGasParameters(p, Rejected(f))
    \/ \E p \in Calls, b \in Balances : preflight(p, Resolved(b))
    \/ \E p \in Calls, f \in BalanceFaults : preflight(p, Rejected(f))
    \/ \E p \in Calls : hookResolved(p)
    \/ \E p \in Calls : hookRejected(p)
    \/ \E p \in Calls : getNextNonceBody(p)
    \/ \E p \in Calls, v \in AccountCounts : getTransactionCountResolved(p, v)
    \/ \E p \in Calls : getTransactionCountRejected(p)
    \/ \E p \in Calls : getNextNonceRejected(p)
    \/ \E p \in Calls : sendPreparedTx(p)
    \/ \E p \in Calls : broadcast(p, Resolved(p))
    \/ \E p \in Calls, f \in BroadcastFaults : broadcast(p, Rejected(f))
    \/ \E p \in Calls, st \in ReceiptStatuses : waitForTransaction(p, Resolved(st))
    \/ \E p \in Calls, f \in RetryFaults : waitForTransaction(p, Rejected(f))
    \/ \E p \in Calls : resetBody(p)
    \/ \E p \in Calls : runExclusiveFinally(p)
    \/ \E p \in Calls : returnReceiptError(p)
    \/ \E p \in Calls : catchBlock(p)

Spec == Init /\ [][Next]_vars

(* ----- SpecLive: every awaited answer and continuation comes about ----- *)
\* What call p waits for once sendTransaction(tx) has been called: the answers
\* of the chain and of the hooks, each resolving or rejecting, and the
\* continuations the event loop and the mutex owe it.
Answer(p) ==
    \/ \E g \in GasEstimates : estimateGas(p, Resolved(g))
    \/ \E f \in RetryFaults : estimateGas(p, Rejected(f))
    \/ \E g \in GasPrices : ~config.eip1559 /\ getGasParameters(p, Resolved(g))
    \/ \E b \in Blocks : config.eip1559 /\ getGasParameters(p, Resolved(b))
    \/ \E f \in PricingFaults : getGasParameters(p, Rejected(f))
    \/ \E b \in Balances : preflight(p, Resolved(b))
    \/ \E f \in BalanceFaults : preflight(p, Rejected(f))
    \/ hookResolved(p)
    \/ hookRejected(p)
    \/ getNextNonceBody(p)
    \/ \E v \in AccountCounts : getTransactionCountResolved(p, v)
    \/ getTransactionCountRejected(p)
    \/ getNextNonceRejected(p)
    \/ sendPreparedTx(p)
    \/ broadcast(p, Resolved(p))
    \/ \E f \in BroadcastFaults : broadcast(p, Rejected(f))
    \/ \E st \in ReceiptStatuses : waitForTransaction(p, Resolved(st))
    \/ \E f \in RetryFaults : waitForTransaction(p, Rejected(f))
    \/ resetBody(p)
    \/ runExclusiveFinally(p)
    \/ returnReceiptError(p)
    \/ catchBlock(p)

\* Every chain call and every hook eventually returns or fails, and the event
\* loop runs every continuation: no call's next step stays possible for ever
\* without being taken. Whether sendTransaction is called at all is left open.
SpecLive == Init /\ [][Next]_vars /\ \A p \in Calls : WF_vars(Answer(p))

(* ------ SpecRepeat: callers that call sendTransaction once more -------- *)
\* the number of further sendTransaction calls made after a call has returned
MaxRepeats == 1

\* A caller whose sendTransaction has returned (or raised) calls
\* sendTransaction(tx) again on the same RelayClient: a new call, with nothing
\* left of the caller's previous one but the allocator's state.
callAgain(p) ==
    /\ pc[p] = "done"
    /\ ops < MaxRepeats
    /\ ops' = ops + 1
    /\ pc' = [pc EXCEPT ![p] = "estimating"]
    /\ attempt' = [attempt EXCEPT ![p] = 0]
    /\ gasResult' = [gasResult EXCEPT ![p] = None]
    /\ gasParamsResult' = [gasParamsResult EXCEPT ![p] = None]
    /\ balanceCheck' = [balanceCheck EXCEPT ![p] = None]
    /\ nonce' = [nonce EXCEPT ![p] = None]
    /\ sent' = [sent EXCEPT ![p] = None]
    /\ hash' = [hash EXCEPT ![p] = None]
    /\ receipt' = [receipt EXCEPT ![p] = None]
    /\ fault' = [fault EXCEPT ![p] = None]
    /\ hookLog' = [hookLog EXCEPT ![p] = <<>>]
    /\ onErrorArg' = [onErrorArg EXCEPT ![p] = None]
    /\ result' = [result EXCEPT ![p] = None]
    /\ raised' = [raised EXCEPT ![p] = None]
    /\ UNCHANGED <<allocator, outside>>

NextRepeat ==
    \/ Next
    \/ \E p \in Calls : callAgain(p)

SpecRepeat == Init /\ [][NextRepeat]_vars

(* --------- SpecRetry: calls of the retry strategy's methods ------------ *)
\* the largest attempt number getDelay is called with
MaxAttempt == 5
\* new ExponentialBackoff(maxAttempts, baseDelay, maxDelay): the defaults, and
\* the delays of the test 'should respect max delay'
Strategies == {[baseDelay |-> 1000, maxDelay |-> 30000],
               [baseDelay |-> 1000, maxDelay |-> 5000]}
\* Math.random(), in thousandths: a number in [0, 1)
RandomDraws == {0, 250, 500, 750, 998}

RetryCall(fn, code, n, strategy, random) ==
    [fn |-> fn, error |-> RelayError("Test error", code, None), attempt |-> n,
     strategy |-> strategy, random |-> random]

RetryCalls ==
    {RetryCall("shouldRetry", c, a, s, 0) :
        c \in RelayErrorCode, a \in 0..(maxAttempts + 1), s \in Strategies}
    \cup {RetryCall(fn, "TEMPORARY_FAILURE", a, s, r) :
            fn \in {"getDelay", "getDelayIndex"}, a \in 0..MaxAttempt,
            s \in Strategies, r \in RandomDraws}

\* no transaction is in progress and nothing is cached
Quiescent ==
    /\ InitNonceManager
    /\ ops = 0
    /\ config = [hooks |-> {}, checkBalance |-> FALSE, minBalanceRequired |-> None,
                 eip1559 |-> FALSE]
    /\ tx = [p \in Calls |-> TransactionRequest(p)]
    /\ pc = [p \in Calls |-> "idle"]
    /\ attempt = [p \in Calls |-> 0]
    /\ gasResult = [p \in Calls |-> None]
    /\ gasParamsResult = [p \in Calls |-> None]
    /\ balanceCheck = [p \in Calls |-> None]
    /\ nonce = [p \in Calls |-> None]
    /\ sent = [p \in Calls |-> None]
    /\ hash = [p \in Calls |-> None]
    /\ receipt = [p \in Calls |-> None]
    /\ fault = [p \in Calls |-> None]
    /\ hookLog = [p \in Calls |-> <<>>]
    /\ onErrorArg = [p \in Calls |-> None]
    /\ result = [p \in Calls |-> None]
    /\ raised = [p \in Calls |-> None]

\* new ExponentialBackoff(config.maxRetries): baseDelay 1000, maxDelay 30000
DefaultStrategy == [baseDelay |-> 1000, maxDelay |-> 30000]

\* what one invocation of the wrapped chain operation can do
OperationOutcomes ==
    {Resolved(2)} \cup
    {Rejected(ErrorObject(m)) :
        m \in {"timeout", "nonce too low", "insufficient funds", "execution reverted"}}

\* this.withRetry(operation): the outcomes the successive invocations of the
\* operation are going to have, one more than the ceiling allows to consume
WithRetryCalls ==
    {[fn |-> "withRetry", outcomes |-> o] :
        o \in [1..(maxAttempts + 2) -> OperationOutcomes]}

InitRetry ==
    /\ Quiescent
    /\ call \in RetryCalls \/ call \in WithRetryCalls
    /\ returned = <<>>

\* strategy.shouldRetry(error, attempt) is evaluated
callShouldRetry ==
    /\ call.fn = "shouldRetry"
    /\ returned = <<>>
    /\ returned' = <<shouldRetry(call.error, call.attempt)>>
    /\ UNCHANGED <<allocator, ops, config, tx, call, callVars>>

\* strategy.getDelay(attempt) is evaluated, Math.random() drawing call.random
callGetDelay ==
    /\ call.fn = "getDelay"
    /\ returned = <<>>
    /\ returned' = <<getDelay(call.strategy, call.attempt, call.random)>>
    /\ UNCHANGED <<allocator, ops, config, tx, call, callVars>>

\* the getDelay(attempt) of index.ts is evaluated
callGetDelayIndex ==
    /\ call.fn = "getDelayIndex"
    /\ returned = <<>>
    /\ returned' = <<getDelayIndex(call.strategy, call.attempt, call.random)>>
    /\ UNCHANGED <<allocator, ops, config, tx, call, callVars>>

\* One invocation of the operation inside withRetry(operation, attempt): the
\* log gets the attempt number, the operation's outcome, the delay awaited
\* before the recursive call (if any) and the result returned (if any).
callWithRetry ==
    /\ call.fn = "withRetry"
    /\ IF returned = <<>> THEN TRUE ELSE returned[Len(returned)].result = None
    /\ LET n == IF returned = <<>> THEN 0 ELSE returned[Len(returned)].attempt + 1
           outcome == call.outcomes[Len(returned) + 1]
           round == withRetry(outcome, n)
       IN \E random \in RandomDraws :
            returned' = Append(returned,
                [attempt |-> n,
                 outcome |-> outcome,
                 delay |-> IF round.retry
                             THEN Some(getDelay(DefaultStrategy, n, random))
                             ELSE None,
                 result |-> IF round.retry THEN None ELSE Some(round.result)])
    /\ UNCHANGED <<allocator, ops, config, tx, call, callVars>>

NextRetry ==
    \/ callShouldRetry
    \/ callGetDelay
    \/ callGetDelayIndex
    \/ callWithRetry

SpecRetry == InitRetry /\ [][NextRetry]_vars

(* ------------- SpecClassify: calls of classifyError -------------------- *)
\* messages of thrown values: wording of each kind, in lower case and not, of
\* two kinds at once, and of none
Messages ==
    {"insufficient funds for gas", "Insufficient Funds", "invalid signature",
     "invalid sender", "INVALID SENDER", "invalid opcode", "execution reverted",
     "Execution Reverted", "unauthorized", "timeout", "network error",
     "connection refused", "rate limit exceeded", "nonce too low", "something else", "",
     "insufficient funds: execution reverted", "invalid sender, reverted",
     "revert after timeout", "invalid signature: insufficient funds"}
\* RelayErrors handed to classifyError, whatever their message says
ClassifiedMessages == {"Test error", "insufficient funds", "execution reverted"}

ClassifyInputs ==
    {ErrorObject(m) : m \in Messages}
    \cup {StringValue(m) : m \in Messages}
    \cup {NumberValue(n) : n \in {0, 42}}
    \cup {NullValue, UndefinedValue, PlainObject, NullPrototypeObject}
    \cup {RelayError(m, c, None) : m \in ClassifiedMessages, c \in RelayErrorCode}
    \cup {RelayError("Test error", "TIMEOUT", Some(ErrorObject("timeout")))}

ClassifyCalls == {[fn |-> "classifyError", error |-> e] : e \in ClassifyInputs}

InitClassify ==
    /\ Quiescent
    /\ call \in ClassifyCalls
    /\ returned = <<>>

\* classifyError(error) is evaluated
callClassifyError ==
    /\ call.fn = "classifyError"
    /\ returned = <<>>
    /\ returned' = <<classifyError(call.error)>>
    /\ UNCHANGED <<allocator, ops, config, tx, call, callVars>>

\* classifyError is evaluated on the RelayError it has returned
callClassifyErrorAgain ==
    /\ call.fn = "classifyError"
    /\ Len(returned) = 1
    /\ returned[1].type = "RelayError"
    /\ returned' = Append(returned, classifyError(returned[1]))
    /\ UNCHANGED <<allocator, ops, config, tx, call, callVars>>

NextClassify ==
    \/ callClassifyError
    \/ callClassifyErrorAgain

SpecClassify == InitClassify /\ [][NextClassify]_vars

(* --------------- SpecPreflight: calls of checkBalance ------------------ *)
\* the largest balance and amount, in wei
MaxBalance == 4
Amounts == 0..MaxBalance
\* what getBalance rejects with
GetBalanceFaults ==
    {ErrorObject("RPC Error"), ErrorObject("insufficient funds for transfer"),
     ErrorObject("timeout"), StringValue("connection refused")}

\* checkBalance(publicClient, address, requiredAmount, minBalanceRequired?) with
\* the answer getBalance is going to give
PreflightCalls ==
    {[fn |-> "checkBalance", outcome |-> o, requiredAmount |-> r, minBalanceRequired |-> m] :
        o \in {Resolved(b) : b \in Amounts} \cup {Rejected(f) : f \in GetBalanceFaults},
        r \in Amounts,
        m \in {None} \cup {Some(a) : a \in Amounts}}

InitPreflight ==
    /\ Quiescent
    /\ call \in PreflightCalls
    /\ returned = <<>>

\* getBalance answers and checkBalance returns
callCheckBalance ==
    /\ call.fn = "checkBalance"
    /\ returned = <<>>
    /\ returned' = <<checkBalance(call.outcome, call.requiredAmount, call.minBalanceRequired)>>
    /\ UNCHANGED <<allocator, ops, config, tx, call, callVars>>

NextPreflight == callCheckBalance

SpecPreflight == InitPreflight /\ [][NextPreflight]_vars

(* ------------- SpecGas: calls of the gas strategies -------------------- *)
\* what getGasPrice, getBlock or getFeeHistory rejects with
GasFaults == {ErrorObject("RPC Error"), ErrorObject("insufficient funds")}
\* getGasPrice answers, in wei
LegacyGasPrices == {0, 1, 2, 3, 100}
Multipliers == {[mant |-> 1, exp |-> 0], [mant |-> 3, exp |-> 1]}
\* the latest block's base fee
BaseFees == {0, 1, 100, 600}
\* feeHistory.reward: per block, the rewards at the one percentile asked for
RewardSamples ==
    {<<>>, << <<0>> >>, << <<1>> >>, << <<2>> >>, << <<3>> >>, << <<400>> >>, << <<2>>, <<4>> >>, << <<4>>, <<2>> >>,
     << <<6>>, <<2>>, <<4>> >>, << <<2>>, <<4>>, <<6>> >>}
\* new EIP1559GasStrategy(client, config): WeiConfig, narrow bounds, a
\* priority ceiling above the total ceiling, and a priority floor above the
\* priority ceiling
EIP1559Configs ==
    {WeiConfig,
     [baseFeeMultiplier |-> [mant |-> 3, exp |-> 1], priorityFeeMultiplier |-> [mant |-> 3, exp |-> 1],
      minPriorityFee |-> 2, maxPriorityFee |-> 4, maxTotalFee |-> 10],
     [baseFeeMultiplier |-> [mant |-> 2, exp |-> 0], priorityFeeMultiplier |-> [mant |-> 2, exp |-> 0],
      minPriorityFee |-> 1, maxPriorityFee |-> 500, maxTotalFee |-> 100],
     [baseFeeMultiplier |-> [mant |-> 2, exp |-> 0], priorityFeeMultiplier |-> [mant |-> 3, exp |-> 1],
      minPriorityFee |-> 5, maxPriorityFee |-> 3, maxTotalFee |-> 1000]}

LegacyCalls ==
    {[fn |-> "LegacyGasStrategy", outcome |-> o, multiplier |-> m] :
        o \in {Resolved(g) : g \in LegacyGasPrices} \cup {Rejected(f) : f \in GasFaults},
        m \in Multipliers}
EIP1559Calls ==
    {[fn |-> "EIP1559GasStrategy", outcome |-> o, cfg |-> c] :
        o \in {Resolved([baseFeePerGas |-> b, reward |-> r]) : b \in BaseFees, r \in RewardSamples}
              \cup {[Rejected(f) EXCEPT !.value = [baseFeePerGas |-> 0, reward |-> <<>>]] :
                        f \in GasFaults},
        c \in EIP1559Configs}

InitGas ==
    /\ Quiescent
    /\ \/ call \in LegacyCalls
       \/ call \in EIP1559Calls
    /\ returned = <<>>

\* getGasPrice answers and LegacyGasStrategy.getGasParameters returns
callLegacyGasParameters ==
    /\ call.fn = "LegacyGasStrategy"
    /\ returned = <<>>
    /\ returned' = <<LegacyGasParameters(call.outcome, call.multiplier)>>
    /\ UNCHANGED <<allocator, ops, config, tx, call, callVars>>

\* getBlock and getFeeHistory answer and EIP1559GasStrategy.getGasParameters
\* returns
callEIP1559GasParameters ==
    /\ call.fn = "EIP1559GasStrategy"
    /\ returned = <<>>
    /\ returned' = <<EIP1559GasParameters(call.outcome, call.cfg)>>
    /\ UNCHANGED <<allocator, ops, config, tx, call, callVars>>

\* sendTransaction builds preparedTx from the fee parameters the strategy has
\* returned, an allocated nonce and a (truthy) gas estimate
PreparedNonces == {0, 1}
PreparedGas == {1, 2}
callPreparedTx ==
    /\ call.fn \in {"LegacyGasStrategy", "EIP1559GasStrategy"}
    /\ Len(returned) = 1
    /\ returned[1].data # None
    /\ \E n \in PreparedNonces, g \in PreparedGas :
          returned' = Append(returned,
                             preparedTx(TransactionRequest(1), n, g, Val(returned[1].data)))
    /\ UNCHANGED <<allocator, ops, config, tx, call, callVars>>

NextGas ==
    \/ callLegacyGasParameters
    \/ callEIP1559GasParameters
    \/ callPreparedTx

SpecGas == InitGas /\ [][NextGas]_vars

(* ----------------------- claims on the allocator ----------------------- *)
InCriticalSection == {p \in Calls : nmpc[p] \in CriticalSection}
TotalAllocs == LET RECURSIVE Sum(_)
                   Sum(n) == IF n = 0 THEN 0 ELSE allocsBy[n] + Sum(n - 1)
               IN Sum(NumCalls)

\* C1: on a fresh allocator, with no reset and with the chain answering the
\* transaction count C, the values returned to the (concurrent) next() calls
\* are C, C+1, ..., C+N-1 in completion order, and the chain was queried once.
C1_ConsecutiveFromChainCount ==
    (~everReset /\ ~everFailed /\ epochVals # <<>>) =>
        /\ epochQueries = 1
        /\ reported # None
        /\ \A i \in 1..Len(epochVals) : epochVals[i] = Val(reported) + i - 1

\* two values have been returned and two more calls are contending for the mutex
C1_Witness ==
    /\ ~everReset /\ ~everFailed
    /\ Len(epochVals) >= 2
    /\ waiters # <<>>

\* C2: the values returned since the last reset() took effect are pairwise
\* different, in every interleaving of next() and reset().
C2_NoRepeatWithoutReset ==
    \A i, j \in 1..Len(epochVals) : i # j => epochVals[i] # epochVals[j]

\* after a reset, two values returned with no reset in between
C2_Witness ==
    /\ everReset
    /\ Len(epochVals) >= 2

\* C4: the first value returned after a reset() took effect is the value the
\* chain reported to a query issued after that reset.
C4_ResetThenNextRefetches ==
    (everReset /\ epochVals # <<>>) =>
        /\ epochQueries >= 1
        /\ reported # None
        /\ epochVals[1] = Val(reported)

\* a nonce was cached, a reset took effect, and the next next() returned the
\* chain's 0, which is not the cached value plus one
C4_Witness ==
    /\ everReset
    /\ epochVals = <<0>>
    /\ TotalAllocs >= 2

\* C5: at most one caller is inside the critical section, the mutex being held
\* for as long as one is; and while a next() awaits the chain's transaction
\* count, no step of another caller changes the cached nonce.
C5_MutualExclusion ==
    /\ [](/\ Cardinality(InCriticalSection) <= 1
          /\ (InCriticalSection # {} => locked))
    /\ [][\A p \in Calls :
            (nmpc[p] = "fetching" /\ nmpc'[p] = "fetching") => currentNonce' = currentNonce]_vars

\* a reset() is queued behind a next() that awaits the chain
C5_Witness ==
    \E p \in Calls :
        /\ nmpc[p] = "fetching"
        /\ waiters # <<>>
        /\ Head(waiters).op = "reset_cs"

(* --------------------- claims on sendTransaction ----------------------- *)
Ended(p) == pc[p] = "done"
Failed(p) == Ended(p) /\ result[p] # None /\ Val(result[p]).error # None
Succeeded(p) == Ended(p) /\ result[p] # None /\ Val(result[p]).data # None
LastHook(p) == IF hookLog[p] = <<>> THEN "none" ELSE hookLog[p][Len(hookLog[p])]
Invoked(p) == {hookLog[p][i] : i \in 1..Len(hookLog[p])}

\* the wait resolved with a receipt: the nonce is consumed on the chain
Confirmed(p) == receipt[p] # None /\ Val(receipt[p]).data # None
\* call p holds a nonce that is neither confirmed nor discarded by its reset()
InFlight(p) == allocsBy[p] >= 1 /\ ~Confirmed(p) /\ resetsBy[p] = 0

\* C3 (as stated): at every instant at most one nonce is in flight, also when
\* several sendTransaction calls run concurrently.
C3_AtMostOneInFlight ==
    Cardinality({p \in Calls : InFlight(p)}) <= 1

\* C3 (amended): every sendTransaction call is handed at most one nonce, and
\* holds one in flight only while it is in progress: the nonces in flight are
\* at most as many as the calls in progress, one each.
C3_OneInFlightPerCallInProgress ==
    \A p \in Calls :
        /\ allocsBy[p] <= 1
        /\ InFlight(p) => pc[p] \notin {"idle", "done"}

\* two concurrent calls each hold a nonce of their own, neither confirmed
C3_Witness ==
    \E p, q \in Calls :
        /\ p # q
        /\ InFlight(p) /\ InFlight(q)
        /\ pc[p] = "waitForTransaction" /\ pc[q] = "waitForTransaction"
        /\ nonce[p] # nonce[q]

\* the stage results that make sendTransaction return early
GasFailed(p) ==
    /\ gasResult[p] # None /\ gasParamsResult[p] # None
    /\ Val(gasResult[p]).error # None
PricingFailed(p) ==
    /\ gasResult[p] # None /\ gasParamsResult[p] # None
    /\ Val(gasParamsResult[p]).error # None
PreflightFailed(p) == balanceCheck[p] # None /\ Val(balanceCheck[p]).error # None
EarlyError(p) ==
    IF GasFailed(p) THEN Val(gasResult[p]).error
    ELSE IF PricingFailed(p) THEN Val(gasParamsResult[p]).error
    ELSE Val(balanceCheck[p]).error
EarlyStages == {"idle", "estimating", "checkBalance"}
EarlyStep(p) ==
    /\ pc[p] \in EarlyStages
    /\ pc'[p] \in EarlyStages \cup {"done"}
    /\ \/ pc'[p] # pc[p]
       \/ attempt'[p] # attempt[p]
       \/ gasResult'[p] # gasResult[p]
       \/ gasParamsResult'[p] # gasParamsResult[p]

\* C6: a call whose gas estimate, pricing or preflight check failed has returned
\* Failed with that error, was handed no nonce, made no call to the allocator,
\* broadcast nothing and did not invoke the before-send hook; and no step it
\* takes up to that return changes the allocator.
C6_EarlyFailureTouchesNothing ==
    /\ [](\A p \in Calls :
            (GasFailed(p) \/ PricingFailed(p) \/ PreflightFailed(p)) =>
                /\ Ended(p)
                /\ raised[p] = None
                /\ result[p] # None
                /\ Val(result[p]).data = None
                /\ Val(result[p]).error = EarlyError(p)
                /\ allocsBy[p] = 0 /\ resetsBy[p] = 0 /\ nmpc[p] = "idle"
                /\ nonce[p] = None /\ sent[p] = None
                /\ "beforeTransaction" \notin Invoked(p))
    /\ [][\A p \in Calls : EarlyStep(p) => UNCHANGED allocator]_vars

\* a call has returned from a failed preflight check while the allocator holds
\* the nonce another call cached
C6_Witness ==
    \E p \in Calls :
        /\ Failed(p)
        /\ PreflightFailed(p)
        /\ currentNonce # None

\* call p returned Failed having been handed a nonce that was not confirmed
FailedBeforeConfirmation(p) == Failed(p) /\ allocsBy[p] >= 1 /\ ~Confirmed(p)

\* C7 (as stated): when a call that failed between nonce allocation and
\* confirmation returns, the allocator is unset.
C7_UnsetAtReturn ==
    [][\A p \in Calls :
         (/\ pc[p] # "done" /\ pc'[p] = "done"
          /\ result'[p] # None /\ Val(result'[p]).error # None
          /\ allocsBy[p] >= 1 /\ ~Confirmed(p))
         => currentNonce' = None]_vars

\* C7 (amended): a call that failed between nonce allocation and confirmation
\* has had its reset() take effect before it returned. The allocator is unset
\* when it returns if it did not await the on-error hook (a failed confirmation
\* wait, or no on-error slot); while that hook runs, after the reset, another
\* call's next() may re-fetch the count and cache it.
C7_ResetBeforeReturn ==
    /\ [](\A p \in Calls : FailedBeforeConfirmation(p) => resetsBy[p] = 1)
    /\ [][\A p \in Calls :
            (/\ pc[p] # "done" /\ pc'[p] = "done"
             /\ result'[p] # None /\ Val(result'[p]).error # None
             /\ allocsBy[p] >= 1 /\ ~Confirmed(p)
             /\ "onError" \notin Invoked(p))
            => currentNonce' = None]_vars

\* a call returns Failed after its broadcast was rejected, the allocator unset
C7_Witness ==
    \E p \in Calls :
        /\ FailedBeforeConfirmation(p)
        /\ sent[p] # None /\ hash[p] = None
        /\ currentNonce = None
        /\ Val(sent[p]).nonce = MaxChainCount

\* the hooks of a successful run, in order, among the slots that are set
SuccessHooks(p) ==
    LET fires(h) == /\ h \in config.hooks
                    /\ h = "onTransactionConfirmed" => Val(Val(receipt[p]).data) = "success"
    IN SelectSeq(<<"beforeTransaction", "onTransactionBroadcast", "onTransactionConfirmed",
                   "afterTransaction">>, fires)

\* C8: a run that returned Succeeded invoked exactly before-send, broadcast,
\* confirmed (receipt status success only) and after-complete, in this order,
\* each once, unset slots skipped, on-error never; and while a hook runs the
\* call takes no other step.
C8_SuccessHookOrder ==
    /\ [](\A p \in Calls : Succeeded(p) => hookLog[p] = SuccessHooks(p))
    /\ [][\A p \in Calls :
            (pc[p] \in AllHooks /\ pc'[p] = pc[p]) =>
                /\ hookLog'[p] = hookLog[p] /\ nmpc'[p] = nmpc[p]
                /\ sent'[p] = sent[p] /\ hash'[p] = hash[p] /\ receipt'[p] = receipt[p]]_vars

\* every slot is set and a call succeeded on a receipt of status success
C8_Witness ==
    \E p \in Calls :
        /\ config.hooks = AllHooks
        /\ Succeeded(p)
        /\ Val(Val(receipt[p]).data) = "success"
        /\ Len(hookLog[p]) = 4

\* C9 (as stated): in a run that ended Failed, with the on-error slot set, the
\* on-error hook was invoked, and it was the last hook invoked.
C9_OnErrorLastOnFailure ==
    \A p \in Calls :
        (Failed(p) /\ "onError" \in config.hooks) => LastHook(p) = "onError"

\* the fault sendTransaction caught came from a hook
HookFaulted(p) ==
    /\ fault[p] # None
    /\ Val(fault[p]) \in {HookFault, classifyError(HookFault)}

\* C10 (as stated): a fault raised inside a before-send, broadcast, confirmed or
\* after-complete hook leaves sendTransaction raw: the call raises and returns
\* no result.
C10_HookFaultPropagates ==
    \A p \in Calls :
        (Ended(p) /\ HookFaulted(p)) => raised[p] # None /\ result[p] = None

\* C10 (amended): a fault raised inside a before-send, broadcast, confirmed or
\* after-complete hook is caught: the allocator is reset, the fault classified,
\* on-error invoked, and Failed returned with the classified fault, also when
\* the transaction was confirmed. Only a fault raised inside the on-error hook
\* leaves sendTransaction, raw.
C10_HookFaultCaught ==
    \A p \in Calls :
        Ended(p) =>
            /\ HookFaulted(p) =>
                /\ resetsBy[p] = 1
                /\ "onError" \in config.hooks => LastHook(p) = "onError"
                /\ raised[p] = None => result[p] = Some(Failure(classifyError(HookFault)))
            /\ raised[p] # None =>
                /\ result[p] = None
                /\ Val(raised[p]) = HookFault
                /\ LastHook(p) = "onError"

\* the after-complete hook threw after the transaction was confirmed, and the
\* call returned Failed
C10_Witness ==
    \E p \in Calls :
        /\ Failed(p) /\ HookFaulted(p)
        /\ Confirmed(p)
        /\ "afterTransaction" \in Invoked(p)

\* how often call p invoked the on-error hook
OnErrorCount(p) == Len(SelectSeq(hookLog[p], LAMBDA h : h = "onError"))
\* the catch block of call p has classified the fault it caught
Classified(p) ==
    /\ Val(fault[p]).type = "RelayError"
    /\ classifyError(Val(Val(fault[p]).details)) = Val(fault[p])

\* C11 (as stated): whenever a fault was raised inside the try of
\* sendTransaction, the call returns Failed carrying the classified fault.
C11_CaughtFaultReturnsFailed ==
    \A p \in Calls :
        (Ended(p) /\ fault[p] # None) => result[p] = Some(Failure(Val(fault[p])))

\* C11 (amended): whenever a fault was raised inside the try of sendTransaction
\* (a hook, the transaction-count fetch, the broadcast), the allocator has been
\* reset by the call, the fault classified, the on-error hook, if set, invoked
\* exactly once with the classified error; the call then returns Failed with
\* that same error, unless the on-error hook itself raises, whose fault leaves
\* sendTransaction instead.
C11_CatchHandlesFault ==
    \A p \in Calls :
        (Ended(p) /\ fault[p] # None) =>
            /\ Classified(p)
            /\ resetsBy[p] = 1
            /\ OnErrorCount(p) = (IF "onError" \in config.hooks THEN 1 ELSE 0)
            /\ "onError" \in config.hooks => onErrorArg[p] = fault[p] /\ LastHook(p) = "onError"
            /\ IF raised[p] = None
                 THEN result[p] = Some(Failure(Val(fault[p])))
                 ELSE result[p] = None /\ Val(raised[p]) = HookFault

\* the transaction-count fetch failed; the call returned Failed with the
\* classified fault, which the on-error hook was handed
C11_Witness ==
    \E p \in Calls :
        /\ Failed(p)
        /\ fault[p] # None
        /\ Val(fault[p]).details = Some(NonceFault)
        /\ onErrorArg[p] = fault[p]
        /\ currentNonce = None

\* a chain collaborator's fault ended call p's run
ChainFaulted(p) ==
    \/ GasFailed(p) \/ PricingFailed(p) \/ PreflightFailed(p)
    \/ receipt[p] # None /\ Val(receipt[p]).error # None
    \/ fault[p] # None /\ ~HookFaulted(p)

\* C12: a call ends either with a result or raising, and it raises only out of
\* a rejecting on-error hook; so with no hook raising it never raises, and
\* every fault of the chain (gas estimate, pricing, balance, transaction count,
\* broadcast, receipt wait) that ended the run is in the result's error field.
C12_FaultsReturnedNotRaised ==
    /\ [](\A p \in Calls :
            Ended(p) =>
                /\ raised[p] = None <=> result[p] # None
                /\ raised[p] # None => LastHook(p) = "onError"
                /\ (ChainFaulted(p) /\ raised[p] = None) =>
                       Val(result[p]).error # None /\ Val(result[p]).data = None)
    /\ [][\A p \in Calls : raised'[p] # raised[p] => pc[p] = "onError"]_vars

\* the receipt wait failed for good with no hook set: the error is returned
C12_Witness ==
    \E p \in Calls :
        /\ config.hooks = {}
        /\ Ended(p)
        /\ receipt[p] # None /\ Val(receipt[p]).error # None
        /\ result[p] = Some(Failure(Val(Val(receipt[p]).error)))
        /\ raised[p] = None

\* exactly one of the two fields of a RelayResult is populated
OneField(r) == (r.data # None) <=> (r.error = None)
OneFieldIfReturned(o) == o # None => OneField(Val(o))

\* C13: every result returned by estimateGas, by the pricing strategy's
\* getGasParameters, by waitForTransaction and by sendTransaction has exactly
\* one of data and error populated.
C13_ResultExactlyOneField ==
    \A p \in Calls :
        /\ OneFieldIfReturned(gasResult[p])
        /\ OneFieldIfReturned(gasParamsResult[p])
        /\ OneFieldIfReturned(receipt[p])
        /\ OneFieldIfReturned(result[p])

\* one call has returned data from all four operations, fee-market pricing
\* included, while another has returned the error of its receipt wait
C13_Witness ==
    \E p, q \in Calls :
        /\ config.eip1559
        /\ Succeeded(p) /\ Val(gasParamsResult[p]).data # None
        /\ Val(gasResult[p]).data # None /\ Val(receipt[p]).data # None
        /\ Failed(q) /\ receipt[q] # None /\ Val(receipt[q]).error # None

\* C14: every sendTransaction call is handed at most one nonce and hands at
\* most one transaction to the broadcast, carrying that nonce; once a call has
\* been handed a nonce or has broadcast, it does neither again, whatever fails.
C14_OneNonceOneBroadcast ==
    /\ [](\A p \in Calls :
            /\ allocsBy[p] <= 1
            /\ Len(sent[p]) <= allocsBy[p]
            /\ sent[p] # <<>> => sent[p][1].nonce = Val(nonce[p]))
    /\ [][\A p \in Calls :
            /\ allocsBy'[p] # allocsBy[p] => allocsBy[p] = 0 /\ sent[p] = <<>>
            /\ sent'[p] # sent[p] => sent[p] = <<>>]_vars

\* both calls have ended, one on a rejected broadcast and one on a success, each
\* having broadcast once with a nonce of its own
C14_Witness ==
    \E p, q \in Calls :
        /\ Failed(p) /\ Len(sent[p]) = 1 /\ hash[p] = None
        /\ Succeeded(q) /\ Len(sent[q]) = 1
        /\ allocsBy[p] = 1 /\ allocsBy[q] = 1

(* ---------------------- claims on the retry strategy ------------------- *)
NonRetryable == {"INSUFFICIENT_FUNDS", "INVALID_SIGNATURE", "PERMANENT_REVERT"}
Evaluated(fn) == call.fn = fn /\ returned # <<>>

\* C15: shouldRetry(error, attempt) is true exactly when attempt is below
\* maxAttempts and the error's code is none of INSUFFICIENT_FUNDS,
\* INVALID_SIGNATURE, PERMANENT_REVERT.
C15_ShouldRetryExactly ==
    Evaluated("shouldRetry") =>
        /\ returned[1] = (call.attempt < maxAttempts /\ call.error.code \notin NonRetryable)
        /\ call.attempt >= maxAttempts => returned[1] = FALSE
        /\ call.error.code \in NonRetryable => returned[1] = FALSE
        /\ call.attempt < maxAttempts /\ call.error.code \notin NonRetryable
            => returned[1] = TRUE
\* a retryable code is refused at the ceiling itself
C15_Witness ==
    /\ Evaluated("shouldRetry")
    /\ call.attempt = maxAttempts
    /\ call.error.code = "TEMPORARY_FAILURE"
    /\ returned = <<FALSE>>

\* the delay a call has returned, and the capped exponential delay m of its
\* arguments, both in thousandths of a millisecond
DelayEvaluated == Evaluated("getDelay") \/ Evaluated("getDelayIndex")
Exponential == call.strategy.baseDelay * Pow2(call.attempt)
Capped == Min(call.strategy.maxDelay, Exponential)

\* C16: for every attempt number and every jitter draw, getDelay(attempt) is
\* at most maxDelay. (The getDelay of index.ts exceeds it.)
C16_DelayAtMostMaxDelay ==
    DelayEvaluated => returned[1] <= call.strategy.maxDelay * 1000

\* C17 as stated: getDelay(attempt) equals m * j with m = min(maxDelay,
\* baseDelay * 2^attempt) and j the jitter factor, the cap applied before the
\* jitter.
C17_CapBeforeJitter ==
    DelayEvaluated => returned[1] = Capped * JitterFactor(call.random)
\* C17 (amended): getDelay(attempt) lies in [0.75 m, 1.25 m] with m =
\* min(maxDelay, baseDelay * 2^attempt), and equals baseDelay * 2^attempt * j
\* when baseDelay * 2^attempt * 1.25 <= maxDelay; the getDelay of
\* ExponentialBackoff caps after the jitter, min(maxDelay, baseDelay *
\* 2^attempt * j), and only the copy in index.ts returns m * j.
C17_DelayWithinJitterOfCap ==
    DelayEvaluated =>
        /\ 750 * Capped <= returned[1]
        /\ returned[1] <= 1250 * Capped
        /\ Exponential * 1250 <= call.strategy.maxDelay * 1000
            => returned[1] = Exponential * JitterFactor(call.random)
        /\ call.fn = "getDelay"
            => returned[1] = Min(call.strategy.maxDelay * 1000,
                                 Exponential * JitterFactor(call.random))
        /\ call.fn = "getDelayIndex" => returned[1] = Capped * JitterFactor(call.random)
\* the exponential delay is over the cap and the jitter draw is the lowest: the
\* result is maxDelay itself, not 0.75 maxDelay
C17_Witness ==
    /\ Evaluated("getDelay")
    /\ Exponential > call.strategy.maxDelay
    /\ call.random = 0
    /\ returned[1] = call.strategy.maxDelay * 1000
    /\ returned[1] # Capped * JitterFactor(call.random)

(* ------------------------ claims on classifyError ---------------------- *)
\* one character in lower case
LowerChar(c) ==
    CASE c = "A" -> "a"
      [] c = "B" -> "b"
      [] c = "C" -> "c"
      [] c = "D" -> "d"
      [] c = "E" -> "e"
      [] c = "F" -> "f"
      [] c = "G" -> "g"
      [] c = "H" -> "h"
      [] c = "I" -> "i"
      [] c = "J" -> "j"
      [] c = "K" -> "k"
      [] c = "L" -> "l"
      [] c = "M" -> "m"
      [] c = "N" -> "n"
      [] c = "O" -> "o"
      [] c = "P" -> "p"
      [] c = "Q" -> "q"
      [] c = "R" -> "r"
      [] c = "S" -> "s"
      [] c = "T" -> "t"
      [] c = "U" -> "u"
      [] c = "V" -> "v"
      [] c = "W" -> "w"
      [] c = "X" -> "x"
      [] c = "Y" -> "y"
      [] c = "Z" -> "z"
      [] OTHER -> c
\* the message in lower case
RECURSIVE toLowerCase(_)
toLowerCase(s) ==
    IF s = "" THEN ""
    ELSE LowerChar(SubSeq(s, 1, 1)) \o toLowerCase(SubSeq(s, 2, Len(s)))

\* the wording of the three kinds that are matched first, in priority order
FundsWording(m) == includes(m, "insufficient funds")
SignatureWording(m) == includes(m, "invalid signature") \/ includes(m, "invalid sender")
RevertWording(m) ==
    includes(m, "invalid opcode") \/ includes(m, "revert") \/ includes(m, "unauthorized")
KindByPriority(m) ==
    IF FundsWording(m) THEN "INSUFFICIENT_FUNDS"
    ELSE IF SignatureWording(m) THEN "INVALID_SIGNATURE"
    ELSE IF RevertWording(m) THEN "PERMANENT_REVERT"
    ELSE "TEMPORARY_FAILURE"

\* the call's argument is an Error object or a string, and the call has returned
ClassifiedMessage ==
    /\ Evaluated("classifyError")
    /\ call.error.type \in {"Error", "string"}

\* C18: classifyError matches the message by case-insensitive substring search,
\* the first match in the order INSUFFICIENT_FUNDS, INVALID_SIGNATURE,
\* PERMANENT_REVERT, TEMPORARY_FAILURE winning: the kind is the one the message
\* in lower case gets. (The search of the code is case-sensitive.)
C18_CaseInsensitivePriority ==
    ClassifiedMessage => returned[1].code = KindByPriority(toLowerCase(call.error.message))

\* C19: classifyError returns a RelayError for every input and never raises, and
\* an input whose message has none of the funds, signature or revert wording is
\* classified TEMPORARY_FAILURE and is retryable. (String(error) throws for an
\* object that has no conversion to a primitive.)
C19_ClassifyTotal ==
    Evaluated("classifyError") =>
        /\ returned[1].type = "RelayError"
        /\ call.error.type # "RelayError" /\ KindByPriority(returned[1].message) = "TEMPORARY_FAILURE"
            => /\ returned[1].code = "TEMPORARY_FAILURE"
               /\ shouldRetry(returned[1], 0)

\* C20: classifyError applied to a RelayError returns that same error, its code,
\* message and details unchanged: a second application to the value it has
\* returned gives that value again.
C20_ClassifyIdempotent ==
    /\ Evaluated("classifyError") /\ call.error.type = "RelayError"
        => returned[1] = call.error
    /\ Len(returned) = 2 => returned[2] = returned[1]
\* an Error with revert wording, classified twice: the second result still
\* refers to the Error itself
C20_Witness ==
    /\ call = [fn |-> "classifyError", error |-> ErrorObject("execution reverted")]
    /\ Len(returned) = 2
    /\ returned[2] = RelayError("execution reverted", "PERMANENT_REVERT",
                                Some(ErrorObject("execution reverted")))

(* ------------------------ claims on checkBalance ----------------------- *)
\* getBalance has answered with a balance and checkBalance has returned
BalanceChecked == Evaluated("checkBalance") /\ call.outcome.ok
Passed == returned[1].error = None
Threshold ==
    IF call.minBalanceRequired # None THEN Val(call.minBalanceRequired)
    ELSE call.requiredAmount

\* C21: the preflight check passes exactly when balance >= threshold, the
\* threshold being minBalanceRequired if one is supplied and requiredAmount
\* otherwise; with an override the outcome is decided by balance and override
\* alone.
C21_PassesIffBalanceAtLeastThreshold ==
    BalanceChecked =>
        /\ Passed <=> call.outcome.value >= Threshold
        /\ call.minBalanceRequired # None
            => (Passed <=> call.outcome.value >= Val(call.minBalanceRequired))
        /\ call.minBalanceRequired = None
            => (Passed <=> call.outcome.value >= call.requiredAmount)
\* the balance equals the override and is below requiredAmount: the check passes
C21_Witness ==
    /\ BalanceChecked
    /\ call.minBalanceRequired = Some(call.outcome.value)
    /\ call.requiredAmount > call.outcome.value
    /\ returned = <<NoData>>

\* C22: when the check fails because balance < threshold, the error returned is
\* a RelayError of code INSUFFICIENT_FUNDS, which shouldRetry never retries, and
\* its message contains "Insufficient balance". (The message has none of the
\* wording classifyError looks for: the code is TEMPORARY_FAILURE.)
C22_ShortfallIsInsufficientFunds ==
    BalanceChecked /\ call.outcome.value < Threshold =>
        /\ returned[1].error # None
        /\ Val(returned[1].error).type = "RelayError"
        /\ Val(returned[1].error).code = "INSUFFICIENT_FUNDS"
        /\ ~shouldRetry(Val(returned[1].error), 0)
        /\ includes(Val(returned[1].error).message, "Insufficient balance")

\* C23: when getBalance rejects (with an Error or a string), checkBalance
\* returns: its result has no data, and its error is classifyError of the
\* fault, a RelayError with the fault's message that refers to the fault.
C23_QueryFaultClassified ==
    Evaluated("checkBalance") /\ ~call.outcome.ok =>
        /\ returned[1].data = None
        /\ returned[1].error = Some(classifyError(call.outcome.fault))
        /\ Val(returned[1].error).type = "RelayError"
        /\ Val(returned[1].error).message = call.outcome.fault.message
        /\ Val(returned[1].error).details = Some(call.outcome.fault)
\* the query of the test 'should handle getBalance errors'
C23_Witness ==
    /\ Evaluated("checkBalance")
    /\ call.outcome = Rejected(ErrorObject("RPC Error"))
    /\ returned = <<Failure(RelayError("RPC Error", "TEMPORARY_FAILURE",
                                       Some(ErrorObject("RPC Error"))))>>

(* --------------------- claims on the gas strategies -------------------- *)
\* a strategy has returned fee parameters
Priced(fn) == Evaluated(fn) /\ returned[1].data # None
Fees == Val(returned[1].data)
\* the fee EIP1559GasStrategy scales: the one it reads from the sample
Sampled ==
    medianPriorityFee([i \in 1..Len(call.outcome.value.reward) |->
                          call.outcome.value.reward[i][1]], call.cfg)
ScaledSample ==
    CeilProduct(Sampled, call.cfg.priorityFeeMultiplier)

\* C24: in every successful result of EIP1559GasStrategy, maxFeePerGas =
\* min(maxTotalFee, baseFeePerGas * ceil(baseFeeMultiplier) +
\* maxPriorityFeePerGas), and so at most maxTotalFee; with the bounds of
\* WeiConfig, a base fee of 100 and a sampled reward of 2 give 3 and 203.
C24_MaxFeeCappedLast ==
    Priced("EIP1559GasStrategy") =>
        /\ Val(Fees.maxFeePerGas) =
             Min(call.cfg.maxTotalFee,
                 call.outcome.value.baseFeePerGas
                    * Ceil(call.cfg.baseFeeMultiplier)
                 + Val(Fees.maxPriorityFeePerGas))
        /\ Val(Fees.maxFeePerGas) <= call.cfg.maxTotalFee
        /\ (call.cfg = WeiConfig /\ call.outcome.value = [baseFeePerGas |-> 100,
                                                                 reward |-> << <<2>> >>])
            => Fees.maxPriorityFeePerGas = Some(3) /\ Fees.maxFeePerGas = Some(203)
\* the base fee alone is over the ceiling: the result is the ceiling
C24_Witness ==
    /\ Priced("EIP1559GasStrategy")
    /\ call.outcome.value.baseFeePerGas * 2 > call.cfg.maxTotalFee
    /\ call.cfg.maxTotalFee = 1000
    /\ Fees.maxFeePerGas = Some(1000)

\* C25: in every successful result of EIP1559GasStrategy whose configuration
\* has minPriorityFee <= maxPriorityFee, maxPriorityFeePerGas is the sampled fee
\* times priorityFeeMultiplier, rounded up and clamped into [minPriorityFee,
\* maxPriorityFee]: never below the one nor above the other, and minPriorityFee
\* itself when the scaled sample is below it.
C25_PriorityFeeClamped ==
    Priced("EIP1559GasStrategy") /\ call.cfg.minPriorityFee <= call.cfg.maxPriorityFee =>
        LET fee == Val(Fees.maxPriorityFeePerGas) IN
        /\ fee >= call.cfg.minPriorityFee
        /\ fee <= call.cfg.maxPriorityFee
        /\ fee = Min(call.cfg.maxPriorityFee,
                     IF ScaledSample < call.cfg.minPriorityFee THEN call.cfg.minPriorityFee
                     ELSE ScaledSample)
        /\ ScaledSample < call.cfg.minPriorityFee => fee = call.cfg.minPriorityFee
\* a sampled reward of nothing under WeiConfig: the floor minPriorityFee
C25_Witness ==
    /\ Priced("EIP1559GasStrategy")
    /\ call.cfg = WeiConfig
    /\ call.outcome.value.reward = << <<0>> >>
    /\ ScaledSample < call.cfg.minPriorityFee
    /\ Fees.maxPriorityFeePerGas = Some(1)

\* the per-block rewards of the sample, in the order the chain reported them
SampleFees ==
    [i \in 1..Len(call.outcome.value.reward) |-> call.outcome.value.reward[i][1]]
\* v is a median of the sample: at most half of the rewards are below it and at
\* most half are above it
IsMedian(v, fees) ==
    /\ \E i \in 1..Len(fees) : fees[i] = v
    /\ 2 * Cardinality({i \in 1..Len(fees) : fees[i] < v}) <= Len(fees)
    /\ 2 * Cardinality({i \in 1..Len(fees) : fees[i] > v}) <= Len(fees)

\* C26: the fee EIP1559GasStrategy multiplies by priorityFeeMultiplier is the
\* median of the sampled rewards, in whatever order the chain reports them, and
\* minPriorityFee when the sample is empty. (The code reads the middle position
\* of the sample as reported, without sorting it.)
C26_SampledIsMedian ==
    Priced("EIP1559GasStrategy") =>
        /\ SampleFees # <<>> => IsMedian(Sampled, SampleFees)
        /\ SampleFees = <<>> => Sampled = call.cfg.minPriorityFee
        /\ \E v \in {call.cfg.minPriorityFee} \cup {SampleFees[i] : i \in 1..Len(SampleFees)} :
              /\ SampleFees # <<>> => IsMedian(v, SampleFees)
              /\ Fees.maxPriorityFeePerGas =
                   Some(boundPriorityFee(CeilProduct(v, call.cfg.priorityFeeMultiplier), call.cfg))

\* C27: every successful result of a gas strategy has one of the two shapes:
\* LegacyGasStrategy sets gasPrice alone, EIP1559GasStrategy sets maxFeePerGas
\* and maxPriorityFeePerGas and leaves gasPrice unset.
C27_OneShapePerResult ==
    /\ Priced("LegacyGasStrategy") =>
        /\ Fees.gasPrice # None
        /\ Fees.maxFeePerGas = None
        /\ Fees.maxPriorityFeePerGas = None
    /\ Priced("EIP1559GasStrategy") =>
        /\ Fees.gasPrice = None
        /\ Fees.maxFeePerGas # None
        /\ Fees.maxPriorityFeePerGas # None
    /\ returned # <<>> /\ call.outcome.ok => returned[1].data # None /\ returned[1].error = None
\* a legacy price of 100 wei under the multiplier 1.5
C27_Witness ==
    /\ Priced("LegacyGasStrategy")
    /\ call.outcome.value = 100
    /\ Fees = [gasPrice |-> Some(150), maxFeePerGas |-> None, maxPriorityFeePerGas |-> None]

\* C28: when the chain query of a gas strategy fails (getGasPrice; getBlock or
\* getFeeHistory), getGasParameters returns a result with no data and an error
\* of code GAS_ESTIMATION_FAILED whose details are the failure.
C28_QueryFailureIsGasEstimationFailed ==
    (Evaluated("LegacyGasStrategy") \/ Evaluated("EIP1559GasStrategy")) /\ ~call.outcome.ok =>
        /\ returned[1].data = None
        /\ returned[1].error # None
        /\ Val(returned[1].error).type = "RelayError"
        /\ Val(returned[1].error).code = "GAS_ESTIMATION_FAILED"
        /\ Val(returned[1].error).details = Some(call.outcome.fault)
\* getBlock rejects with a message classifyError would call INSUFFICIENT_FUNDS
C28_Witness ==
    /\ Evaluated("EIP1559GasStrategy")
    /\ call.outcome.fault = ErrorObject("insufficient funds")
    /\ ~call.outcome.ok
    /\ Val(returned[1].error).message = "Failed to get EIP-1559 gas parameters"

(* ------------- claims on concurrent sendTransaction calls -------------- *)
\* positions at which sendTransaction awaits getNextNonce() or reset()
AllocatorCalls == {"getNextNonce", "resetAfterWait", "catchReset"}
\* the call is suspended outside the allocator: in estimateGas or
\* waitForTransaction (retry delays included), in the preflight check, in a
\* hook, or in the broadcast
Suspended(p) == pc[p] \notin AllocatorCalls \cup {"idle", "done"}

\* C29: the mutex is held only while some call is inside getNextNonce() or
\* reset(): a sendTransaction call suspended in a retry delay, a hook, the
\* broadcast or the wait for the receipt neither holds it nor is queued for it,
\* so that the mutex is free for another call unless a third one is inside
\* the allocator.
C29_MutexHeldOnlyInsideAllocator ==
    /\ locked => InCriticalSection # {}
    /\ \A p \in Calls :
        /\ nmpc[p] \in CriticalSection \cup {"queued"} => pc[p] \in AllocatorCalls
        /\ Suspended(p) => nmpc[p] \in NmQuiet
    /\ (\A p \in Calls : Suspended(p) \/ pc[p] \in {"idle", "done"}) => ~locked /\ waiters = <<>>
\* one call is in the retry of its wait for the receipt while the other one
\* holds the mutex inside getNextNonce()
C29_Witness ==
    \E p, q \in Calls :
        /\ pc[p] = "waitForTransaction"
        /\ attempt[p] >= 1
        /\ pc[q] = "getNextNonce"
        /\ nmpc[q] \in CriticalSection
        /\ locked

\* C30: sendTransaction never changes the caller's request: no step of a call
\* assigns to the object, which has the fields and values it was passed with
\* at every instant, the return included; nonce, gas limit and fee fields are
\* set on the outbound object alone, which carries the request's own fields.
C30_RequestUnchanged ==
    /\ [](\A p \in Calls :
            /\ tx[p] = TransactionRequest(p)
            /\ \A i \in 1..Len(sent[p]) :
                  /\ sent[p][i].to = tx[p].to
                  /\ sent[p][i].value = tx[p].value
                  /\ sent[p][i].nonce = Val(nonce[p]))
    /\ [][tx' = tx]_vars
\* a call has broadcast with a nonce and a gas limit and has returned its hash;
\* its request still has neither
C30_Witness ==
    \E p \in Calls :
        /\ Succeeded(p)
        /\ Len(sent[p]) = 1
        /\ sent[p][1].nonce = MaxChainCount
        /\ sent[p][1].gas = 2
        /\ tx[p].nonce = None
        /\ tx[p].gas = None

(* ------------------- claims on the confirmed receipt ------------------- *)
\* C31 (as stated): whenever the wait yields a receipt, the confirmed hook is
\* invoked iff the status is success, the after-complete hook is invoked for
\* every receipt, and sendTransaction returns Succeeded with the broadcast hash,
\* with no on-error hook and no reset for a receipt of status reverted.
C31_ReceiptAlwaysSucceeds ==
    \A p \in Calls :
        Ended(p) /\ Confirmed(p) =>
            /\ "onTransactionConfirmed" \in config.hooks =>
                 ("onTransactionConfirmed" \in Invoked(p)
                    <=> Val(Val(receipt[p]).data) = "success")
            /\ "afterTransaction" \in config.hooks => "afterTransaction" \in Invoked(p)
            /\ result[p] = Some(Data(Val(hash[p])))
            /\ Val(Val(receipt[p]).data) = "reverted" =>
                 "onError" \notin Invoked(p) /\ resetsBy[p] = 0

\* C31 (amended): whenever the wait yields a receipt, the confirmed hook is
\* invoked iff its slot is set and the status is success, and the
\* after-complete hook is invoked for every receipt unless the confirmed hook
\* failed. If neither hook fails sendTransaction returns Succeeded with the
\* broadcast hash, without on-error hook or reset, also for a receipt of status
\* reverted. If one of them fails the fault is caught: the allocator is reset,
\* on-error invoked, and the call ends Failed although the receipt exists.
C31_ReceiptThenHooks ==
    \A p \in Calls :
        Ended(p) /\ Confirmed(p) =>
            /\ "onTransactionConfirmed" \in Invoked(p)
                 <=> /\ "onTransactionConfirmed" \in config.hooks
                     /\ Val(Val(receipt[p]).data) = "success"
            /\ fault[p] = None =>
                 /\ "afterTransaction" \in config.hooks <=> "afterTransaction" \in Invoked(p)
                 /\ result[p] = Some(Data(Val(hash[p])))
                 /\ raised[p] = None
                 /\ "onError" \notin Invoked(p)
                 /\ resetsBy[p] = 0
            /\ fault[p] # None =>
                 /\ HookFaulted(p)
                 /\ LastHook(p) \in {"onTransactionConfirmed", "afterTransaction", "onError"}
                 /\ resetsBy[p] = 1
                 /\ ~Succeeded(p)
                 /\ "onError" \in config.hooks <=> "onError" \in Invoked(p)
\* every slot is set and the receipt's status is reverted: the call succeeded,
\* the after-complete hook ran, the confirmed hook and the on-error hook did not
C31_Witness ==
    \E p \in Calls :
        /\ config.hooks = AllHooks
        /\ Succeeded(p)
        /\ Val(Val(receipt[p]).data) = "reverted"
        /\ hookLog[p] = <<"beforeTransaction", "onTransactionBroadcast", "afterTransaction">>
        /\ resetsBy[p] = 0

(* ------------------- claims on the outbound transaction ---------------- *)
\* preparedTx has been built from the fee parameters returned
Prepared == Len(returned) = 2
Outbound == returned[2]

\* C32: for every fee-parameter result a gas strategy can return, the
\* transaction handed to the broadcast carries exactly the fee fields of that
\* result: gasPrice alone for a legacy result, maxFeePerGas with
\* maxPriorityFeePerGas alone for a market one, never both and never neither.
\* (A fee of 0n is falsy: a legacy price of 0n leaves the transaction with no
\* fee field.)
C32_ExactFeeFields ==
    Prepared =>
        /\ Outbound.gasPrice = Fees.gasPrice
        /\ Outbound.maxFeePerGas = Fees.maxFeePerGas
        /\ Outbound.maxPriorityFeePerGas = Fees.maxPriorityFeePerGas
        /\ (Outbound.gasPrice # None) # (Outbound.maxFeePerGas # None)

(* ------------------- claims on the retry wrapper ----------------------- *)
Invocations == Len(returned)
Terminal(outcome) == ~outcome.ok /\ classifyError(outcome.fault).code \in NonRetryable
\* the wrapper has returned r
Returns(r) == returned[Invocations].result = Some(r)

\* C33: withRetry invokes the operation at most maxAttempts + 1 times and then
\* returns: the first successful value as data; the classified error of a
\* terminal failure right after the invocation that met it, with no delay; the
\* classified error of the last invocation when all maxAttempts + 1 fail; and
\* between two invocations a delay getDelay(attempt) of the attempt just made.
C33_BoundedRetries ==
    call.fn = "withRetry" =>
        /\ Invocations <= maxAttempts + 1
        /\ \A i \in 1..Invocations :
             LET round == returned[i] IN
               /\ round.attempt = i - 1
               /\ round.outcome = call.outcomes[i]
               /\ i < Invocations => round.result = None
               /\ IF round.outcome.ok
                    THEN round.result = Some(Data(round.outcome.value))
                         /\ round.delay = None
                  ELSE IF Terminal(round.outcome) \/ i = maxAttempts + 1
                    THEN round.result
                            = Some(Failure(classifyError(round.outcome.fault)))
                         /\ round.delay = None
                  ELSE /\ round.result = None
                       /\ \E random \in RandomDraws :
                            round.delay
                              = Some(getDelay(DefaultStrategy, i - 1, random))

\* all maxAttempts + 1 invocations failed and the last one's error is returned
C33_Witness ==
    /\ call.fn = "withRetry"
    /\ Invocations = maxAttempts + 1
    /\ \A i \in 1..Invocations : ~returned[i].outcome.ok
    /\ returned[1].delay # None
    /\ Returns(Failure(classifyError(call.outcomes[maxAttempts + 1].fault)))

(* ------------------- claims on the order of service -------------------- *)
Served(i) == issued[i].nonce # None

\* C34: with no reset in between, next() calls are served in the order they
\* were issued: a call is not served while one issued before it is pending,
\* and of two served calls the one issued earlier received the strictly
\* smaller nonce.
C34_ServedInIssueOrder ==
    \A i, j \in 1..Len(issued) :
        i < j =>
            /\ Served(j) => Served(i)
            /\ (Served(i) /\ Served(j)) => Val(issued[i].nonce) < Val(issued[j].nonce)

\* three calls were issued together, the second and the third waiting in the
\* mutex's queue at once behind the first, and on the chain's count C they
\* received C, C+1, C+2 in call order
C34_Witness ==
    /\ Len(issued) = 3
    /\ \A i \in 1..3 : issued[i].ahead = i - 1
    /\ ~everReset
    /\ reported # None
    /\ \A i \in 1..3 : issued[i].nonce = Some(Val(reported) + i - 1)

(* ------------------- claims on the nonces in use ----------------------- *)
\* call p has been allocated a nonce, has met no failure and has not returned:
\* its transaction is about to be broadcast or awaits its receipt
Holding(p) == nonce[p] # None /\ fault[p] = None /\ receipt[p] = None /\ ~Ended(p)

\* C35: no two sendTransaction calls that have been allocated a nonce and have
\* not yet returned hold the same nonce, also when a call failed and reset the
\* allocator while another was in progress.
C35_NoSharedNonce ==
    \A p, q \in Calls : (p # q /\ Holding(p) /\ Holding(q)) => nonce[p] # nonce[q]

(* ------------- claims on a failed transaction-count query -------------- *)
\* the transaction-count query of call p's next() failed
CountFailed(p) ==
    /\ fault[p] # None
    /\ Val(fault[p]) \in {NonceFault, classifyError(NonceFault)}

\* C36 (as stated): the sendTransaction call whose next() met a failed
\* transaction-count query returns Failed.
C36_CountFailureReturnsFailed ==
    \A p \in Calls : (Ended(p) /\ CountFailed(p)) => Failed(p)

\* C36 (amended): when the transaction-count query fails inside next(), the
\* cached nonce stays unset and the mutex is released, passing to the first
\* waiting next() or reset() if there is one; a next() that runs its body
\* while the cache is unset queries the chain again; and the sendTransaction
\* call that met the failure returns Failed with the classified fault, unless
\* the on-error hook raises, whose fault leaves sendTransaction instead.
C36_CountFailureRecovers ==
    /\ [][\A p \in Calls :
            /\ (nmpc[p] = "fetching" /\ nmpc'[p] \notin {"fetching", "returning"}) =>
                /\ nmpc'[p] = "throwing"
                /\ currentNonce' = None
            /\ (nmpc[p] = "throwing" /\ nmpc'[p] # "throwing") =>
                /\ nmpc'[p] = "threw"
                /\ currentNonce' = None
                /\ locked' = (waiters # <<>>)
                /\ waiters # <<>> =>
                     /\ waiters' = Tail(waiters)
                     /\ nmpc'[Head(waiters).proc] = Head(waiters).op]_vars
    /\ [][\A q \in Calls :
            (everFailed /\ currentNonce = None /\ nmpc[q] = "next_cs"
                /\ nmpc'[q] # "next_cs") =>
                /\ nmpc'[q] = "fetching"
                /\ epochQueries' = epochQueries + 1]_vars
    /\ [](\A p \in Calls :
            (Ended(p) /\ CountFailed(p)) =>
                /\ nonce[p] = None
                /\ IF raised[p] = None
                     THEN result[p] = Some(Failure(classifyError(NonceFault)))
                     ELSE /\ result[p] = None
                          /\ "onError" \in config.hooks
                          /\ Val(raised[p]) = HookFault)

\* the query of one call failed and the call returned Failed; the other call's
\* next() then entered the critical section and is querying the chain again
C36_Witness ==
    \E p, q \in Calls :
        /\ Failed(p) /\ CountFailed(p)
        /\ nmpc[q] = "fetching"

(* ------------------ claims on the two market fees ---------------------- *)
\* C37: in every successful result of EIP1559GasStrategy, for every base fee,
\* reward sample and configuration of the bounds, maxPriorityFeePerGas is at
\* most maxFeePerGas.
C37_PriorityWithinMaxFee ==
    Priced("EIP1559GasStrategy") =>
        Val(Fees.maxPriorityFeePerGas) <= Val(Fees.maxFeePerGas)

(* ---------------------- claims on termination -------------------------- *)
Called(p) == pc[p] # "idle"

\* C38 (as stated): every sendTransaction call that was made eventually
\* returns, Succeeded or Failed.
C38_EventuallyReturnsResult ==
    \A p \in Calls : Called(p) ~> (Succeeded(p) \/ Failed(p))

\* C38 (amended): every sendTransaction call that was made eventually ends,
\* returning Succeeded or Failed or, when the on-error hook fails, raising that
\* hook's fault; and a call queued for the allocator's critical section
\* eventually leaves the queue.
C38_EventuallyEnds ==
    /\ \A p \in Calls : Called(p) ~> Ended(p)
    /\ \A p \in Calls : (nmpc[p] = "queued") ~> (nmpc[p] # "queued")
    /\ [](\A p \in Calls :
            Ended(p) =>
                \/ Succeeded(p) \/ Failed(p)
                \/ raised[p] = Some(HookFault) /\ LastHook(p) = "onError")

\* both calls have ended after each was handed a nonce: one Succeeded, the
\* other raised out of its on-error hook
C38_Witness ==
    \E p, q \in Calls :
        /\ Succeeded(p)
        /\ Ended(q) /\ raised[q] # None
        /\ allocsBy[p] = 1 /\ allocsBy[q] = 1

====
